---- MODULE Spec2Model ----
(***************************************************************************)
(* A model of the Flick interpreter (src/temp_interpreter/interpreter.ts), *)
(* its plugin manager (plugin.ts) and the web plugin's HTTP dispatch       *)
(* (src/unnamed/part_001, plugins/builtins.ts).                            *)
(*                                                                         *)
(* Environments, task closures and interpreters are heap objects: they are *)
(* kept in sequences and referred to by their index.  The evaluator is a   *)
(* set of mutually recursive operators that thread the heap `st` and       *)
(* return an outcome record [st, k, v]: k = "normal" with the value v, or  *)
(* k = "error" (a thrown Error whose message is v.s) or k = "return" (the  *)
(* thrown {__return: true, value: v} object of a give statement).          *)
(***************************************************************************)
EXTENDS Integers, Sequences, FiniteSets, TLC

VARIABLES
    st,        \* the heap: [envs, tasks, interps, modules, console, trace]
    status,    \* the main run: "running" | "aborted" (runFlick's catch) | "complete"
    steps,     \* number of top-level statements interpret() has evaluated
    last,      \* the top-level statement evaluated last, and its outcome
    program,   \* the statements of the main program (globalEnv.__program)
    server,    \* the web plugin's HTTP server: [listening, routes]
    reqs       \* the requests the server has accepted, in order of arrival

vars == <<st, status, steps, last, program, server, reqs>>

(***************************************************************************)
(* Bounds of the model.                                                    *)
(***************************************************************************)
MaxSteps == 3
MaxRequests == 2
\* the number of module loads in progress, one inside the other, at which a
\* run is cut off
MaxLoads == 3

(***************************************************************************)
(* Runtime values.  Every value has the same three fields so that any two  *)
(* values can be compared.                                                 *)
(***************************************************************************)
Null == [t |-> "null", n |-> 0, s |-> ""]
Undefined == [t |-> "undefined", n |-> 0, s |-> ""]
Num(k) == [t |-> "number", n |-> k, s |-> ""]
Str(x) == [t |-> "string", n |-> 0, s |-> x]
Bool(b) == [t |-> "boolean", n |-> IF b THEN 1 ELSE 0, s |-> ""]
\* a task closure: index into st.tasks
TaskFn(i) == [t |-> "function", n |-> i, s |-> "task"]
\* a builtin function installed by the constructor or by a plugin
BuiltinFn(name) == [t |-> "function", n |-> 0, s |-> name]
IsFunction(v) == v.t = "function"
\* the exports object of a loaded module: index into st.modules
ModuleValue(i) == [t |-> "module", n |-> i, s |-> ""]
\* the JSON object of the constructor
JsonObject == [t |-> "object", n |-> 0, s |-> "JSON"]
\* the { __respond: true, content, statusCode, contentType } object
RespondValue(content, statusCode, contentType) ==
    [t |-> "respond", n |-> 0, s |-> "", content |-> content,
     statusCode |-> statusCode, contentType |-> contentType]
IsRespond(v) == v.t = "respond"
\* an array: its elements
ArrayValue(elems) == [t |-> "array", n |-> Len(elems), s |-> "", elems |-> elems]
\* the object of an object literal: its properties by key
ObjectLiteralValue(props) == [t |-> "object", n |-> 0, s |-> "", props |-> props]
\* a group instance: index into st.instances
InstanceValue(i) == [t |-> "instance", n |-> i, s |-> ""]
\* the constructor function of a group of interpreter `self`
GroupConstructor(self, name) == [t |-> "function", n |-> self, s |-> "group", name |-> name]
\* a method bound to an instance
BoundMethod(i, name) == [t |-> "function", n |-> i, s |-> "method", name |-> name]
\* what a call of an async function gives a caller that does not await it
PromiseObject == [t |-> "object", n |-> 0, s |-> "Promise"]

(***************************************************************************)
(* AST nodes (src/temp_interpreter/ast.ts), built as the parser builds     *)
(* them.  NoNode stands for an absent optional child.                      *)
(***************************************************************************)
NoNode == [type |-> "None"]
Literal(v) == [type |-> "Literal", value |-> v]
Identifier(name) == [type |-> "Identifier", name |-> name]
BinaryExpression(op, l, r) ==
    [type |-> "BinaryExpression", operator |-> op, left |-> l, right |-> r]
CallExpression(callee, args) ==
    [type |-> "CallExpression", callee |-> callee, args |-> args]
VariableDeclaration(name, mutable, init) ==
    [type |-> "VariableDeclaration", name |-> name, mutable |-> mutable,
     initializer |-> init]
Assignment(target, value) ==
    [type |-> "Assignment", target |-> target, value |-> value]
TaskDeclaration(name, params, body) ==
    [type |-> "TaskDeclaration", name |-> name, parameters |-> params, body |-> body]
ReturnStatement(value) == [type |-> "ReturnStatement", value |-> value]
ExpressionStatement(e) == [type |-> "ExpressionStatement", expression |-> e]
PrintStatement(es) == [type |-> "PrintStatement", expressions |-> es]
IfBranch(cond, body) == [condition |-> cond, body |-> body]
IfStatement(branches) == [type |-> "IfStatement", conditions |-> branches]
MarchLoop(v, start, end, body) ==
    [type |-> "MarchLoop", variable |-> v, start |-> start, end |-> end, body |-> body]
UseStatement(name, path) == [type |-> "UseStatement", name |-> name, path |-> path]
DeclareStatement(plugin, arg) ==
    [type |-> "DeclareStatement", plugin |-> plugin, argument |-> arg]
\* route METHOD "path" => body end; an absent method is "", as is an absent
\* forward target
RouteStatement(method, path, body) ==
    [type |-> "RouteStatement", method |-> method, path |-> path, forward |-> "",
     body |-> body]
ForwardRoute(method, path, forward) ==
    [type |-> "RouteStatement", method |-> method, path |-> path, forward |-> forward,
     body |-> <<>>]
\* select expression => when "key" => [suppose condition =>] body ... end
SelectCase(key, conditions, body) == [key |-> key, conditions |-> conditions, body |-> body]
SelectStatement(e, cases) == [type |-> "SelectStatement", expression |-> e, cases |-> cases]
\* respond content [, status=...]; an absent status is NoNode
RespondStatement(content, statusOpt) ==
    [type |-> "RespondStatement", content |-> content,
     options |-> [json |-> NoNode, status |-> statusOpt]]
MemberExpression(object, property) ==
    [type |-> "MemberExpression", object |-> object, property |-> Identifier(property),
     computed |-> FALSE]
ComputedMember(object, property) ==
    [type |-> "MemberExpression", object |-> object, property |-> property,
     computed |-> TRUE]
\* assume condition => consequent [, otherwise => alternate]
TernaryExpression(condition, consequent, alternate) ==
    [type |-> "TernaryExpression", condition |-> condition, consequent |-> consequent,
     alternate |-> alternate]
ArrayLiteral(elements) == [type |-> "ArrayLiteral", elements |-> elements]
\* properties: a sequence of [key, value]
ObjectLiteral(properties) == [type |-> "ObjectLiteral", properties |-> properties]
\* group Name { fields and methods }
GroupDeclaration(name, fields, methods) ==
    [type |-> "GroupDeclaration", name |-> name, fields |-> fields, methods |-> methods]
\* blueprint Name { task signatures }
BlueprintDeclaration(name, methods) ==
    [type |-> "BlueprintDeclaration", name |-> name, methods |-> methods]
TaskSignature(name, params) == [name |-> name, parameters |-> params]
\* do Blueprint for Group => tasks end
DoImplementation(blueprintName, groupName, methods) ==
    [type |-> "DoImplementation", blueprintName |-> blueprintName,
     groupName |-> groupName, methods |-> methods]
RespondJson(json, statusOpt) ==
    [type |-> "RespondStatement", content |-> Literal(Str("")),
     options |-> [json |-> json, status |-> statusOpt]]

(***************************************************************************)
(* Environments: { parent?, vars: Map<name, {value, mutable}> }.           *)
(* parent = 0 stands for no parent.  kind records which code created the   *)
(* environment: the constructor ("global"), executeTask ("task"), a loop   *)
(* ("loop") or the request handler ("route").                              *)
(***************************************************************************)
NoVars == [n \in {} |-> Null]
Binding(v, m) == [value |-> v, mutable |-> m]
Environment(parent, vs, kind) == [parent |-> parent, vars |-> vs, kind |-> kind]
MapSet(m, key, val) == [k \in DOMAIN m \cup {key} |-> IF k = key THEN val ELSE m[k]]

\* env.vars.set(name, binding) on heap object `env`
EnvSet(s, env, name, b) ==
    [s EXCEPT !.envs[env].vars = MapSet(@, name, b)]

\* a new heap environment; its index is Len(s.envs) + 1
NewEnv(s, parent, vs, kind) ==
    [s EXCEPT !.envs = Append(@, Environment(parent, vs, kind))]

\* outcomes of evaluation
Normal(s, v) == [st |-> s, k |-> "normal", v |-> v]
Throw(s, msg) == [st |-> s, k |-> "error", v |-> Str(msg)]
ThrowReturn(s, v) == [st |-> s, k |-> "return", v |-> v]

\* Interpreter.lookupVariable: the environment that binds `name`, walking
\* outward from env through the parents; 0 when none does
RECURSIVE ResolveEnv(_, _, _)
ResolveEnv(s, name, env) ==
    IF env = 0 THEN 0
    ELSE IF name \in DOMAIN s.envs[env].vars THEN env
    ELSE ResolveEnv(s, name, s.envs[env].parent)

lookupVariable(s, name, env) ==
    LET e == ResolveEnv(s, name, env) IN
    IF e = 0 THEN Throw(s, "Undefined variable: " \o name)
    ELSE Normal(s, s.envs[e].vars[name].value)

\* record an observation in the execution trace of the current statement
Log(s, e) == [s EXCEPT !.trace = Append(@, e)]

\* what a read of `name` from env yields: the binding, or nothing
Observe(s, name, env) ==
    LET e == ResolveEnv(s, name, env) IN
    IF e = 0 THEN [bound |-> FALSE, value |-> Undefined, mutable |-> FALSE, at |-> 0]
    ELSE [bound |-> TRUE, value |-> s.envs[e].vars[name].value,
          mutable |-> s.envs[e].vars[name].mutable, at |-> e]

(***************************************************************************)
(* Interpreter.setVariable (interpreter.ts 866-882)                        *)
(***************************************************************************)
setVariableShadow(s, name, value, env) ==
    \* variant: writes the binding into the current scope instead of the
    \* scope that owns it
    LET e == ResolveEnv(s, name, env) IN
    IF e = 0 THEN Throw(s, "Undefined variable: " \o name)
    ELSE IF ~s.envs[e].vars[name].mutable
         THEN Throw(s, "Cannot reassign immutable variable: " \o name)
    ELSE Normal(EnvSet(s, env, name, Binding(value, TRUE)), Undefined)

setVariableNoCheck(s, name, value, env) ==
    \* variant: no mutability check
    LET e == ResolveEnv(s, name, env) IN
    IF e = 0 THEN Throw(s, "Undefined variable: " \o name)
    ELSE Normal(EnvSet(s, e, name, Binding(value, TRUE)), Undefined)

setVariable(s, name, value, env) ==
    LET e == ResolveEnv(s, name, env) IN
    IF e = 0 THEN Throw(s, "Undefined variable: " \o name)
    ELSE IF ~s.envs[e].vars[name].mutable
         THEN Throw(s, "Cannot reassign immutable variable: " \o name)
    ELSE Normal(EnvSet(s, e, name, Binding(value, TRUE)), Undefined)

(***************************************************************************)
(* Conversions of values (JavaScript's, as the interpreter uses them).     *)
(***************************************************************************)
MaxNumeral == 20
NaN == [t |-> "number", n |-> 0, s |-> "NaN"]
isNaN(v) == v.t = "number" /\ v.s = "NaN"
\* A number that is not whole is kept as the reduced fraction n / d, the
\* denominator written in the field s as "/d"; the infinities have the sign
\* in n.  The results are those of JavaScript wherever the double is exact.
Abs(k) == IF k < 0 THEN -k ELSE k
Sign(k) == IF k < 0 THEN -1 ELSE IF k > 0 THEN 1 ELSE 0
RECURSIVE GCD(_, _)
GCD(a, b) == IF b = 0 THEN a ELSE GCD(b, a % b)
Den(v) ==
    CASE v.s = "" -> 1
      [] v.s \in {"Infinity", "-Infinity"} -> 0
      [] OTHER -> CHOOSE d \in 2..(MaxNumeral * MaxNumeral) : v.s = "/" \o ToString(d)
Ratio(n, d) ==
    LET nn == IF d < 0 THEN -n ELSE n
        dd == Abs(d)
        g == GCD(Abs(nn), dd)
    IN IF dd = 0
       THEN IF nn = 0 THEN NaN
            ELSE [t |-> "number", n |-> Sign(nn),
                  s |-> IF nn > 0 THEN "Infinity" ELSE "-Infinity"]
       ELSE IF dd \div g = 1 THEN [t |-> "number", n |-> nn \div g, s |-> ""]
       ELSE [t |-> "number", n |-> nn \div g, s |-> "/" \o ToString(dd \div g)]
\* the operators +, -, *, / and < of two numbers
Plus(l, r) ==
    IF isNaN(l) \/ isNaN(r) THEN NaN
    ELSE IF Den(l) = 0 /\ Den(r) = 0 THEN (IF l.n = r.n THEN l ELSE NaN)
    ELSE IF Den(l) = 0 THEN l
    ELSE IF Den(r) = 0 THEN r
    ELSE Ratio(l.n * Den(r) + r.n * Den(l), Den(l) * Den(r))
Minus(l, r) == IF isNaN(r) THEN NaN ELSE Plus(l, Ratio(-r.n, Den(r)))
Times(l, r) ==
    IF isNaN(l) \/ isNaN(r) THEN NaN ELSE Ratio(l.n * r.n, Den(l) * Den(r))
Divide(l, r) ==
    IF isNaN(l) \/ isNaN(r) THEN NaN
    ELSE IF r.n = 0 THEN Times(l, Ratio(1, 0))
    ELSE Times(l, Ratio(Den(r) * Sign(r.n), Abs(r.n)))
Less(l, r) ==
    /\ ~isNaN(l) /\ ~isNaN(r)
    /\ IF Den(l) = 0 /\ Den(r) = 0 THEN l.n < r.n
       ELSE l.n * Den(r) < r.n * Den(l)
\* Number.prototype.toString: at most MaxDigits digits after the point
MaxDigits == 16
RECURSIVE Decimals(_, _, _)
Decimals(rem, d, k) ==
    IF rem = 0 \/ k = 0 THEN ""
    ELSE ToString((rem * 10) \div d) \o Decimals((rem * 10) % d, d, k - 1)
NumberString(v) ==
    CASE isNaN(v) -> "NaN"
      [] Den(v) = 0 -> v.s
      [] Den(v) = 1 -> ToString(v.n)
      [] OTHER -> (IF v.n < 0 THEN "-" ELSE "") \o ToString(Abs(v.n) \div Den(v))
                  \o "." \o Decimals(Abs(v.n) % Den(v), Den(v), MaxDigits)
\* parseFloat on a string: the numerals of 0..MaxNumeral parse, other
\* strings of the model do not start with a digit and give NaN
parseFloat(x) ==
    IF \E k \in 0..MaxNumeral : ToString(k) = x
    THEN Num(CHOOSE k \in 0..MaxNumeral : ToString(k) = x)
    ELSE NaN
\* String(value); Array.prototype.toString joins the elements with commas
\* and gives null and undefined elements the empty string
RECURSIVE String(_)
RECURSIVE JoinElements(_, _)
JoinElements(elems, i) ==
    IF i > Len(elems) THEN ""
    ELSE (IF i > 1 THEN "," ELSE "")
         \o (IF elems[i].t \in {"null", "undefined"} THEN "" ELSE String(elems[i]))
         \o JoinElements(elems, i + 1)
String(v) ==
    CASE v.t = "string" -> v.s
      [] v.t = "number" -> NumberString(v)
      [] v.t = "boolean" -> IF v.n = 1 THEN "true" ELSE "false"
      [] v.t = "null" -> "null"
      [] v.t = "undefined" -> "undefined"
      [] v.t = "function" -> "[Function " \o v.s \o "]"
      [] v.t = "array" -> JoinElements(v.elems, 1)
      [] OTHER -> "[object Object]"
\* Object.keys(value) of an object: the keys of an object literal, of the
\* JSON builtin and of the objects a request handler is given (the query
\* object carries its parameters as props)
Keys(v) ==
    CASE v.t = "instance" -> {"__groupName", "__env"}
      [] v.t # "object" -> {}
      [] "props" \in DOMAIN v -> DOMAIN v.props
      [] v.s = "JSON" -> {"stringify", "parse"}
      [] v.s = "req" -> {"method", "url", "headers", "body"}
      [] OTHER -> {"host"}
\* JSON.stringify of an array: strings quoted, NaN, null, undefined and
\* functions as null, nested arrays in brackets, other objects as {}
RECURSIVE JsonElements(_, _)
JsonElements(elems, i) ==
    IF i > Len(elems) THEN ""
    ELSE (IF i > 1 THEN "," ELSE "")
         \o (CASE elems[i].t = "string" -> "\"" \o elems[i].s \o "\""
               [] elems[i].t = "number" /\ ~isNaN(elems[i]) /\ Den(elems[i]) # 0 ->
                    NumberString(elems[i])
               [] elems[i].t = "boolean" -> String(elems[i])
               [] elems[i].t = "array" -> "[" \o JsonElements(elems[i].elems, 1) \o "]"
               [] elems[i].t \in {"object", "instance"} -> "{}"
               [] OTHER -> "null")
         \o JsonElements(elems, i + 1)
\* Interpreter.stringify (interpreter.ts 909-929)
stringify(v) ==
    CASE v.t = "string" -> v.s
      [] v.t = "number" -> NumberString(v)
      [] v.t = "boolean" -> IF v.n = 1 THEN "yes" ELSE "no"
      [] v.t \in {"null", "undefined"} -> "null"
      [] v.t = "function" -> "[Function " \o v.s \o "]"
      [] v.t = "array" -> "[" \o JsonElements(v.elems, 1) \o "]"
      [] OTHER -> "{}"
isTruthyJavaScript(v) ==
    \* variant: the truth value JavaScript gives
    ~ \/ v.t \in {"null", "undefined"}
      \/ (v.t = "boolean" /\ v.n = 0)
      \/ (v.t = "string" /\ v.s = "")
      \/ (v.t = "number" /\ (isNaN(v) \/ v.n = 0))
\* Interpreter.isTruthy (interpreter.ts 884-907)
isTruthy(v) ==
    ~ \/ v.t \in {"null", "undefined"}
      \/ (v.t = "boolean" /\ v.n = 0)
      \/ (v.t = "string" /\ v.s = "")
      \/ (v.t = "array" /\ v.n = 0)
      \/ (v.t \in {"object", "instance"} /\ Keys(v) = {})

\* the value a parameter name is bound to: Map.set in parameter order, so of
\* two parameters with one name the later wins; a missing argument is null
ParamValue(params, args, name) ==
    LET i == CHOOSE j \in 1..Len(params) :
                 params[j] = name /\ \A k \in (j+1)..Len(params) : params[k] # name
    IN IF i <= Len(args) THEN args[i] ELSE Null

\* Number(value)
Number(v) ==
    CASE v.t = "number" -> v
      [] v.t = "string" -> IF v.s = "" THEN Num(0) ELSE parseFloat(v.s)
      [] v.t = "boolean" -> Num(v.n)
      [] v.t = "null" -> Num(0)
      [] OTHER -> NaN

\* the operators of evaluateBinaryExpression (interpreter.ts 755-787)
BinaryOp(op, left, right) ==
    LET leftNum == IF left.t = "string" THEN parseFloat(left.s) ELSE left
        rightNum == IF right.t = "string" THEN parseFloat(right.s) ELSE right
        l == Number(left)
        r == Number(right)
    IN CASE op = "+" ->
              IF leftNum.t = "number" /\ rightNum.t = "number"
                 /\ ~isNaN(leftNum) /\ ~isNaN(rightNum)
              THEN Plus(leftNum, rightNum)
              ELSE Str(String(left) \o String(right))
         [] op = "-" -> Minus(l, r)
         [] op = "*" -> Times(l, r)
         [] op = "/" -> Divide(l, r)
         [] op = "==" -> Bool(left = right /\ ~isNaN(left))
         [] op = "!=" -> Bool(~(left = right /\ ~isNaN(left)))
         [] op = "<" -> Bool(Less(l, r))
         [] op = ">" -> Bool(Less(r, l))
         [] op = "<=" -> Bool(Less(l, r) \/ (l = r /\ ~isNaN(l)))
         [] op = ">=" -> Bool(Less(r, l) \/ (l = r /\ ~isNaN(l)))


(***************************************************************************)
(* The evaluator.  Every operator takes the node, the environment `env`    *)
(* it runs in, the interpreter `self` it belongs to and the heap `s`.      *)
(* All recursion goes through the one operator Eval, which dispatches on   *)
(* the name of the evaluator function being called.                        *)
(***************************************************************************)
RECURSIVE Eval(_, _, _)
EvalExpr(node, env, self, s) ==
    Eval("evaluateExpression", [node |-> node, env |-> env, self |-> self], s)
EvalStmt(node, env, self, s) ==
    Eval("evaluateStatement", [node |-> node, env |-> env, self |-> self], s)
EvalList(nodes, i, env, self, s, acc) ==
    Eval("evalList", [nodes |-> nodes, i |-> i, env |-> env, self |-> self, acc |-> acc], s)
ExecBody(stmts, i, env, self, s) ==
    Eval("execBody", [stmts |-> stmts, i |-> i, env |-> env, self |-> self], s)
BranchBody(stmts, i, env, self, s) ==
    Eval("branchBody", [stmts |-> stmts, i |-> i, env |-> env, self |-> self], s)
IfBranches(branches, i, env, self, s) ==
    Eval("ifBranches", [branches |-> branches, i |-> i, env |-> env, self |-> self], s)
MarchIter(node, i, end, env, self, s) ==
    Eval("marchIter", [node |-> node, i |-> i, end |-> end, env |-> env, self |-> self], s)
SelectConds(conds, i, env, self, s) ==
    Eval("selectConds", [conds |-> conds, i |-> i, env |-> env, self |-> self], s)
SelectCases(node, i, obj, env, self, s) ==
    Eval("selectCases", [node |-> node, i |-> i, obj |-> obj, env |-> env, self |-> self], s)
PrintParts(exprs, i, env, self, s, acc) ==
    Eval("printParts", [exprs |-> exprs, i |-> i, env |-> env, self |-> self, acc |-> acc], s)
CallFunction(fn, args, s) == Eval("callFunction", [fn |-> fn, args |-> args], s)
EvalSync(node, env, self, s) ==
    Eval("evaluateExpressionSync", [node |-> node, env |-> env, self |-> self], s)
SyncList(nodes, i, env, self, s, acc) ==
    Eval("syncList", [nodes |-> nodes, i |-> i, env |-> env, self |-> self, acc |-> acc], s)
InitFields(fields, i, argIndex, args, env, self, s) ==
    Eval("initFields", [fields |-> fields, i |-> i, argIndex |-> argIndex, args |-> args,
                        env |-> env, self |-> self], s)
ObjectProps(props, i, env, self, s, acc, sync) ==
    Eval("objectProps", [props |-> props, i |-> i, env |-> env, self |-> self,
                         acc |-> acc, sync |-> sync], s)

\* `const x = await f(...); rest`: a throw of f skips the rest
Then(r, Rest(_)) == IF r.k # "normal" THEN r ELSE Rest(r)

\* the expressions of a list, evaluated left to right: [st, k, v, vals]
evalList(nodes, i, env, self, s, acc) ==
    IF i > Len(nodes) THEN [st |-> s, k |-> "normal", v |-> Null, vals |-> acc]
    ELSE Then(EvalExpr(nodes[i], env, self, s),
              LAMBDA r : EvalList(nodes, i + 1, env, self, r.st, Append(acc, r.v)))

\* Interpreter.evaluateCall (interpreter.ts 801-814)
evaluateCall(node, env, self, s) ==
    Then(EvalExpr(node.callee, env, self, s), LAMBDA c :
    Then(EvalList(node.args, 1, env, self, c.st, <<>>), LAMBDA a :
         IF IsFunction(c.v) THEN CallFunction(c.v, a.vals, a.st)
         ELSE Throw(a.st, "Not a function")))

\* Interpreter.evaluateBinaryExpression (interpreter.ts 751-788)
evaluateBinaryExpression(node, env, self, s) ==
    Then(EvalExpr(node.left, env, self, s), LAMBDA l :
    Then(EvalExpr(node.right, env, self, l.st), LAMBDA r :
         Normal(r.st, BinaryOp(node.operator, l.v, r.v))))

\* obj[prop] read.  A field of a group instance is read by its getter from
\* the instance's environment (interpreter.ts 468); properties set on the
\* instance later shadow its methods
GetProperty(obj, prop, s) ==
    CASE obj.t \in {"null", "undefined"} ->
           Throw(s, "Cannot read properties of " \o obj.t \o " (reading '" \o prop \o "')")
      [] obj.t = "instance" ->
           LET inst == s.instances[obj.n] IN
           Normal(s, CASE prop \in inst.fields ->
                            IF prop \in DOMAIN s.envs[inst.env].vars
                            THEN s.envs[inst.env].vars[prop].value ELSE Undefined
                       [] prop \in DOMAIN inst.props -> inst.props[prop]
                       [] prop \in DOMAIN inst.methods -> BoundMethod(obj.n, prop)
                       [] prop = "__groupName" -> Str(inst.group)
                       [] OTHER -> Undefined)
      [] obj.t = "object" /\ "props" \in DOMAIN obj ->
           Normal(s, IF prop \in DOMAIN obj.props THEN obj.props[prop] ELSE Undefined)
      [] obj.t = "array" ->
           Normal(s, IF prop = "length" THEN Num(obj.n)
                     ELSE IF \E k \in 1..obj.n : ToString(k - 1) = prop
                     THEN obj.elems[CHOOSE k \in 1..obj.n : ToString(k - 1) = prop]
                     ELSE Undefined)
      [] obj.t = "string" /\ prop = "length" -> Normal(s, Num(Len(obj.s)))
      [] OTHER -> Normal(s, Undefined)

\* the property name of a member expression (interpreter.ts 818-820)
PropertyName(node, env, self, s) ==
    IF node.computed
    THEN Then(EvalExpr(node.property, env, self, s), LAMBDA p : Normal(p.st, Str(String(p.v))))
    ELSE Normal(s, Str(node.property.name))

\* Interpreter.evaluateMemberExpression (interpreter.ts 816-823)
evaluateMemberExpression(node, env, self, s) ==
    Then(EvalExpr(node.object, env, self, s), LAMBDA o :
    Then(PropertyName(node, env, self, o.st), LAMBDA p :
         GetProperty(o.v, p.v.s, p.st)))

\* Interpreter.evaluateTernaryExpression (interpreter.ts 841-851)
evaluateTernaryExpression(node, env, self, s) ==
    Then(EvalExpr(node.condition, env, self, s), LAMBDA c :
         IF isTruthy(c.v) THEN EvalExpr(node.consequent, env, self, c.st)
         ELSE IF node.alternate # NoNode THEN EvalExpr(node.alternate, env, self, c.st)
         ELSE Normal(c.st, Null))

\* the properties of an object literal, evaluated in order (interpreter.ts
\* 212-217, 975-980)
objectProps(props, i, env, self, s, acc, sync) ==
    IF i > Len(props) THEN Normal(s, ObjectLiteralValue(acc))
    ELSE Then(IF sync THEN EvalSync(props[i].value, env, self, s)
              ELSE EvalExpr(props[i].value, env, self, s), LAMBDA r :
              ObjectProps(props, i + 1, env, self, r.st, MapSet(acc, props[i].key, r.v), sync))

\* Interpreter.evaluateExpression (interpreter.ts 185-228)
evaluateExpression(node, env, self, s) ==
    CASE node.type = "Literal" -> Normal(s, node.value)
      [] node.type = "Identifier" -> lookupVariable(s, node.name, env)
      [] node.type = "BinaryExpression" -> evaluateBinaryExpression(node, env, self, s)
      [] node.type = "CallExpression" -> evaluateCall(node, env, self, s)
      [] node.type = "MemberExpression" -> evaluateMemberExpression(node, env, self, s)
      [] node.type = "ArrayLiteral" ->
           Then(EvalList(node.elements, 1, env, self, s, <<>>),
                LAMBDA r : Normal(r.st, ArrayValue(r.vals)))
      [] node.type = "ObjectLiteral" ->
           ObjectProps(node.properties, 1, env, self, s, NoVars, FALSE)
      [] node.type = "TernaryExpression" -> evaluateTernaryExpression(node, env, self, s)
      [] node.type = "UnaryExpression" ->
           Then(EvalExpr(node.operand, env, self, s),
                LAMBDA o : Normal(o.st, Minus(Num(0), Number(o.v))))
      [] OTHER -> Throw(s, "Unknown statement type: " \o node.type)

(***************************************************************************)
(* Interpreter.evaluateExpressionSync (interpreter.ts 932-991): the        *)
(* evaluator of the field initializers of a group.  It has its own copy of *)
(* the binary operators.                                                   *)
(***************************************************************************)
BinaryOpSyncConcat(op, left, right) ==
    \* variant: `+` always concatenates the string forms
    LET l == Number(left)
        r == Number(right)
    IN CASE op = "+" -> Str(String(left) \o String(right))
         [] op = "-" -> Minus(l, r)
         [] op = "*" -> Times(l, r)
         [] op = "/" -> Divide(l, r)
         [] OTHER -> Bool(FALSE)
\* interpreter.ts 940-968
BinaryOpSync(op, left, right) ==
    LET leftNum == IF left.t = "string" THEN parseFloat(left.s) ELSE left
        rightNum == IF right.t = "string" THEN parseFloat(right.s) ELSE right
        l == Number(left)
        r == Number(right)
    IN CASE op = "+" ->
              IF leftNum.t = "number" /\ rightNum.t = "number"
                 /\ ~isNaN(leftNum) /\ ~isNaN(rightNum)
              THEN Plus(leftNum, rightNum)
              ELSE Str(String(left) \o String(right))
         [] op = "-" -> Minus(l, r)
         [] op = "*" -> Times(l, r)
         [] op = "/" -> Divide(l, r)
         [] op = "==" -> Bool(left = right /\ ~isNaN(left))
         [] op = "!=" -> Bool(~(left = right /\ ~isNaN(left)))
         [] op = "<" -> Bool(Less(l, r))
         [] op = ">" -> Bool(Less(r, l))
         [] op = "<=" -> Bool(Less(l, r) \/ (l = r /\ ~isNaN(l)))
         [] op = ">=" -> Bool(Less(r, l) \/ (l = r /\ ~isNaN(l)))
syncList(nodes, i, env, self, s, acc) ==
    IF i > Len(nodes) THEN [st |-> s, k |-> "normal", v |-> Null, vals |-> acc]
    ELSE Then(EvalSync(nodes[i], env, self, s),
              LAMBDA r : SyncList(nodes, i + 1, env, self, r.st, Append(acc, r.v)))
\* `callee(...args)` without await (interpreter.ts 982-988): a task gives its
\* promise, whose body runs after the caller has gone on
SyncCall(fn, args, s) ==
    IF fn.s \in {"task", "method"} THEN Normal(s, PromiseObject)
    ELSE CallFunction(fn, args, s)
evaluateExpressionSync(node, env, self, s) ==
    CASE node.type = "Literal" -> Normal(s, node.value)
      [] node.type = "Identifier" -> lookupVariable(s, node.name, env)
      [] node.type = "BinaryExpression" ->
           Then(EvalSync(node.left, env, self, s), LAMBDA l :
           Then(EvalSync(node.right, env, self, l.st), LAMBDA r :
                Normal(r.st, BinaryOpSync(node.operator, l.v, r.v))))
      [] node.type = "ArrayLiteral" ->
           Then(SyncList(node.elements, 1, env, self, s, <<>>),
                LAMBDA r : Normal(r.st, ArrayValue(r.vals)))
      [] node.type = "ObjectLiteral" ->
           ObjectProps(node.properties, 1, env, self, s, NoVars, TRUE)
      [] node.type = "CallExpression" ->
           Then(EvalSync(node.callee, env, self, s), LAMBDA c :
           Then(SyncList(node.args, 1, env, self, c.st, <<>>), LAMBDA a :
                IF IsFunction(c.v) THEN SyncCall(c.v, a.vals, a.st)
                ELSE Throw(a.st, "Not a function")))
      [] OTHER -> Throw(s, "Cannot evaluate " \o node.type \o " synchronously")

\* for (const statement of body) await this.evaluateStatement(statement, env)
execBody(stmts, i, env, self, s) ==
    IF i > Len(stmts) THEN Normal(s, Null)
    ELSE Then(EvalStmt(stmts[i], env, self, s),
              LAMBDA r : ExecBody(stmts, i + 1, env, self, r.st))

(***************************************************************************)
(* Interpreter.executeTask (interpreter.ts 539-567): a fresh environment   *)
(* under the defining one, the parameters bound by position, the body run, *)
(* and the thrown return object caught.                                    *)
(***************************************************************************)
TaskParams(node, args) ==
    [p \in {node.parameters[j] : j \in 1..Len(node.parameters)} |->
        Binding(ParamValue(node.parameters, args, p), TRUE)]
\* the catch of executeTask (interpreter.ts 558-566)
CatchReturn(r) ==
    CASE r.k = "return" -> Normal(r.st, r.v)
      [] r.k = "error" -> r
      [] OTHER -> Normal(r.st, Null)
LogResult(env, out) ==
    [out EXCEPT !.st = Log(@, [ev |-> "result", env |-> env, k |-> out.k, v |-> out.v])]

executeTaskNoCatch(node, args, parentEnv, self, s) ==
    \* variant: the catch does not recognise the return object and rethrows it
    LET Rethrow(r) == IF r.k = "normal" THEN Normal(r.st, Null) ELSE r IN
    LogResult(Len(s.envs) + 1,
        Rethrow(ExecBody(node.body, 1, Len(s.envs) + 1, self,
                    Log(NewEnv(s, parentEnv, TaskParams(node, args), "task"),
                        [ev |-> "scope", kind |-> "task", env |-> Len(s.envs) + 1,
                         name |-> node.name]))))

executeTaskNoScope(node, args, parentEnv, self, s) ==
    \* variant: no environment of its own; the parameters are bound in the
    \* defining environment and the body runs there
    LogResult(parentEnv,
        CatchReturn(ExecBody(node.body, 1, parentEnv, self,
                        [s EXCEPT !.envs[parentEnv].vars =
                            [n \in DOMAIN @ \cup DOMAIN TaskParams(node, args) |->
                                IF n \in DOMAIN TaskParams(node, args)
                                THEN TaskParams(node, args)[n] ELSE @[n]]])))

executeTask(node, args, parentEnv, self, s) ==
    LogResult(Len(s.envs) + 1,
        CatchReturn(ExecBody(node.body, 1, Len(s.envs) + 1, self,
                        Log(NewEnv(s, parentEnv, TaskParams(node, args), "task"),
                            [ev |-> "scope", kind |-> "task", env |-> Len(s.envs) + 1,
                         name |-> node.name]))))

\* the core builtins of the constructor (interpreter.ts 44-65) and the time
\* plugin's sleep (part_001 350-356), applied to their arguments
callBuiltin(name, args, s) ==
    LET a == IF Len(args) >= 1 THEN args[1] ELSE Undefined IN
    CASE name = "num" ->
           LET p == IF a.t = "number" THEN a ELSE parseFloat(String(a)) IN
           Normal(s, IF isNaN(p) THEN Num(0) ELSE p)
      [] name = "str" -> Normal(s, Str(String(a)))
      [] name = "sleep" -> Normal(Log(s, [ev |-> "sleep"]), Undefined)
      [] OTHER -> Normal(s, Undefined)

\* Interpreter.executeTaskWithEnv (interpreter.ts 569-597): the call of a
\* method; the fresh environment is under the instance's environment
executeTaskWithEnv(node, args, instanceEnv, self, s) ==
    LogResult(Len(s.envs) + 1,
        CatchReturn(ExecBody(node.body, 1, Len(s.envs) + 1, self,
                        Log(NewEnv(s, instanceEnv, TaskParams(node, args), "task"),
                            [ev |-> "scope", kind |-> "task", env |-> Len(s.envs) + 1,
                             name |-> node.name]))))

(***************************************************************************)
(* Interpreter.instantiateGroup (interpreter.ts 439-496).  The instance's  *)
(* environment is under the interpreter's global environment; each field   *)
(* takes its initializer's value, else the next argument, else null.  The  *)
(* method names of a group differ from its field names.                    *)
(***************************************************************************)
initFields(fields, i, argIndex, args, env, self, s) ==
    IF i > Len(fields) THEN Normal(s, Null)
    ELSE LET fromArgs == fields[i].initializer = NoNode /\ argIndex < Len(args) IN
         Then(IF fields[i].initializer # NoNode
              THEN EvalSync(fields[i].initializer, env, self, s)
              ELSE Normal(s, IF fromArgs THEN args[argIndex + 1] ELSE Null),
              LAMBDA r : InitFields(fields, i + 1,
                                    IF fromArgs THEN argIndex + 1 ELSE argIndex,
                                    args, env, self,
                                    EnvSet(r.st, env, fields[i].name,
                                           Binding(r.v, fields[i].mutable))))
\* the methods of the implementations are bound after the group's own, in
\* the order of the implementations, and replace a method of the same name
\* (interpreter.ts 486-494)
RECURSIVE BindImplementations(_, _, _)
BindImplementations(methods, implementations, i) ==
    IF i > Len(implementations) THEN methods
    ELSE BindImplementations(
             [m \in DOMAIN methods \cup DOMAIN implementations[i].methods |->
                 IF m \in DOMAIN implementations[i].methods
                 THEN implementations[i].methods[m] ELSE methods[m]],
             implementations, i + 1)
instantiateGroup(self, groupName, args, s) ==
    IF groupName \notin DOMAIN s.interps[self].groups
    THEN Throw(s, "Unknown group: " \o groupName)
    ELSE LET groupDef == s.interps[self].groups[groupName]
             env == Len(s.envs) + 1
         IN Then(InitFields(groupDef.fields, 1, 0, args, env, self,
                            NewEnv(s, s.interps[self].globalEnv, NoVars, "instance")),
                 LAMBDA r :
                 Normal([r.st EXCEPT !.instances =
                            Append(@, [group |-> groupName, env |-> env, self |-> self,
                                       fields |-> {groupDef.fields[j].name :
                                                      j \in 1..Len(groupDef.fields)},
                                       methods |-> BindImplementations(
                                           groupDef.methods, groupDef.implementations, 1),
                                       props |-> NoVars])],
                        InstanceValue(Len(r.st.instances) + 1)))

\* the call of a function value: a task closure, a group constructor, a
\* bound method or a builtin
callFunction(fn, args, s) ==
    CASE fn.s = "task" ->
           executeTask(s.tasks[fn.n].node, args, s.tasks[fn.n].env, s.tasks[fn.n].self, s)
      [] fn.s = "group" -> instantiateGroup(fn.n, fn.name, args, s)
      [] fn.s = "method" ->
           executeTaskWithEnv(s.instances[fn.n].methods[fn.name], args,
                              s.instances[fn.n].env, s.instances[fn.n].self, s)
      [] OTHER -> callBuiltin(fn.s, args, s)

(***************************************************************************)
(* File paths (node:path).  A path is its segments and whether it is       *)
(* absolute; the process runs in Cwd.                                      *)
(***************************************************************************)
Path(abs, segs) == [abs |-> abs, segs |-> segs]
NoPath == [abs |-> FALSE, segs |-> <<"">>]
Cwd == Path(TRUE, <<"app">>)
RECURSIVE Normalize(_, _)
\* path.normalize on segments: "." is dropped, ".." drops the segment before
Normalize(segs, acc) ==
    IF segs = <<>> THEN acc
    ELSE IF Head(segs) = "." THEN Normalize(Tail(segs), acc)
    ELSE IF Head(segs) = ".." /\ acc # <<>> /\ acc[Len(acc)] # ".."
         THEN Normalize(Tail(segs), SubSeq(acc, 1, Len(acc) - 1))
    ELSE Normalize(Tail(segs), Append(acc, Head(segs)))
\* path.dirname
dirname(p) == Path(p.abs, SubSeq(p.segs, 1, Len(p.segs) - 1))
\* path.join(base, file): concatenates and normalizes, never makes absolute
join(base, file) == Path(base.abs, Normalize(base.segs \o <<file>>, <<>>))
\* path.resolve(base, p): always absolute, relative parts resolved against Cwd
resolve(base, p) ==
    IF p.abs THEN Path(TRUE, Normalize(p.segs, <<>>))
    ELSE IF base.abs THEN Path(TRUE, Normalize(base.segs \o p.segs, <<>>))
    ELSE Path(TRUE, Normalize(Cwd.segs \o base.segs \o p.segs, <<>>))
\* the file the operating system opens for a path: relative paths are taken
\* from Cwd
AbsolutePath(p) == resolve(Path(FALSE, <<>>), p)

(***************************************************************************)
(* The module files on disk, by absolute path: each is the statement list  *)
(* its text parses to.                                                     *)
(***************************************************************************)
SharedFile == Path(TRUE, <<"app", "Shared.fk">>)
ModFile == Path(TRUE, <<"app", "Mod.fk">>)
BrokenFile == Path(TRUE, <<"app", "Broken.fk">>)
NoWebFile == Path(TRUE, <<"app", "NoWeb.fk">>)
RespFile == Path(TRUE, <<"app", "Resp.fk">>)
SiteFile == Path(TRUE, <<"app", "Site.fk">>)
UserFile == Path(TRUE, <<"app", "User.fk">>)
OtherFile == Path(TRUE, <<"app", "Other.fk">>)
SelfFile == Path(TRUE, <<"app", "Self.fk">>)
PingFile == Path(TRUE, <<"app", "Ping.fk">>)
PongFile == Path(TRUE, <<"app", "Pong.fk">>)
FileBody(p) ==
    CASE p = SharedFile ->
           << PrintStatement(<<Literal(Str("shared loaded"))>>),
              VariableDeclaration("hits", TRUE, Literal(Num(0))) >>
      [] p = ModFile ->
           << DeclareStatement("web", Literal(Str("module"))),
              VariableDeclaration("secret", FALSE, Literal(Str("m"))),
              RouteStatement("GET", "/x", <<RespondStatement(Identifier("secret"), NoNode)>>),
              RouteStatement("GET", "/", <<RespondStatement(Literal(Str("root")), NoNode)>>),
              RouteStatement("POST", "/x", <<RespondStatement(Literal(Str("PX")),
                                                              Literal(Num(201)))>>),
              RouteStatement("GET", "/decl",
                  << VariableDeclaration("c", TRUE, Identifier("secret")),
                     RespondStatement(Identifier("c"), NoNode) >>),
              ForwardRoute("", "/deep", "Shared") >>
      [] p = BrokenFile ->
           << PrintStatement(<<Literal(Str("broken loaded"))>>),
              ExpressionStatement(Identifier("nosuch")) >>
      \* a route in a file that does not declare web
      [] p = NoWebFile ->
           << PrintStatement(<<Literal(Str("noweb loaded"))>>),
              RouteStatement("GET", "/n", <<RespondStatement(Literal(Str("n")), NoNode)>>) >>
      \* a respond in a task of a file that does not declare web
      [] p = RespFile ->
           << PrintStatement(<<Literal(Str("resp loaded"))>>),
              TaskDeclaration("answer", <<>>,
                  <<RespondStatement(Literal(Str("r")), NoNode)>>) >>
      \* a file that declares web with a port and has a route
      [] p = SiteFile ->
           << DeclareStatement("web", Literal(Num(4000))),
              PrintStatement(<<Literal(Str("site loaded"))>>),
              RouteStatement("GET", "/s", <<RespondStatement(Literal(Str("s")), NoNode)>>) >>
      \* two files that use Shared
      [] p = UserFile ->
           << UseStatement("Shared", NoPath),
              PrintStatement(<<Literal(Str("user loaded"))>>) >>
      [] p = OtherFile ->
           << UseStatement("Shared", NoPath),
              PrintStatement(<<Literal(Str("other loaded"))>>) >>
      \* a file that uses itself, and two files that use each other
      [] p = SelfFile ->
           << UseStatement("Self", NoPath),
              PrintStatement(<<Literal(Str("self loaded"))>>) >>
      [] p = PingFile ->
           << UseStatement("Pong", NoPath),
              PrintStatement(<<Literal(Str("ping loaded"))>>) >>
      [] p = PongFile ->
           << UseStatement("Ping", NoPath),
              PrintStatement(<<Literal(Str("pong loaded"))>>) >>
FileExists(p) ==
    p \in {SharedFile, ModFile, BrokenFile, NoWebFile, RespFile, SiteFile, UserFile, OtherFile,
           SelfFile, PingFile, PongFile}

DeclaresPlugin(body, plugin) ==
    \E i \in 1..Len(body) : body[i].type = "DeclareStatement" /\ body[i].plugin = plugin

\* the interpreter of the main file and its global environment are the first
\* objects of the heap
MainInterp == 1
GlobalEnv == 1

\* new Interpreter(pluginManager, filePath) (interpreter.ts 39-66): a global
\* environment holding the core builtins
CoreBuiltins ==
    [n \in {"num", "str", "JSON"} |->
        Binding(IF n = "JSON" THEN JsonObject ELSE BuiltinFn(n), FALSE)]
NewInterpreter(s, filePath) ==
    LET s1 == NewEnv(s, 0, CoreBuiltins, "global") IN
    [s1 EXCEPT !.interps = Append(@, [globalEnv |-> Len(s1.envs),
                                      currentFilePath |-> filePath,
                                      loadedModules |-> [q \in {} |-> 0],
                                      groups |-> [q \in {} |-> 0],
                                      blueprints |-> [q \in {} |-> 0]])]

\* Plugin.registerBuiltins of the four builtin plugins (part_001 47-49,
\* 291-336, 343-363, 370-406)
PluginBuiltins(plugin) ==
    CASE plugin = "time" -> {"now", "sleep", "timestamp"}
      [] plugin = "files" -> {"read", "write", "exists", "listdir"}
      [] plugin = "random" -> {"random", "randint", "shuffle", "choice"}
      [] OTHER -> {}
KnownPlugins == {"web", "files", "time", "random"}
RECURSIVE SetAll(_, _, _)
SetAll(s, env, names) ==
    IF names = {} THEN s
    ELSE LET n == CHOOSE x \in names : TRUE IN
         SetAll(EnvSet(s, env, n, Binding(BuiltinFn(n), FALSE)), env, names \ {n})

(***************************************************************************)
(* The parser and the plugin manager it is given.  Parser.parse reads the  *)
(* `declare` lines of a file first and declares each plugin to the manager *)
(* (parser.ts 39-45, 113); a plugin-gated keyword met later asks the       *)
(* manager whether its plugin is declared.                                 *)
(***************************************************************************)
declarePluginAgain(declared, name, args) ==
    \* variant: every declaration adds an entry
    Append(declared, [name |-> name, args |-> args])
\* PluginManager.declarePlugin (plugin.ts 43-54) on the Map of declared
\* plugins: a plugin declared again keeps its place and takes the new
\* argument
declarePlugin(declared, name, args) ==
    IF \E i \in 1..Len(declared) : declared[i].name = name
    THEN [i \in 1..Len(declared) |->
             IF declared[i].name = name THEN [name |-> name, args |-> args]
             ELSE declared[i]]
    ELSE Append(declared, [name |-> name, args |-> args])
\* the manager's Map after the `declare` lines of a file
RECURSIVE DeclaredPlugins(_, _, _)
DeclaredPlugins(body, i, declared) ==
    IF i > Len(body) \/ Len(declared) < 0 THEN declared
    ELSE DeclaredPlugins(body, i + 1,
             IF body[i].type = "DeclareStatement"
             THEN declarePlugin(declared, body[i].plugin, body[i].argument)
             ELSE declared)
isDeclaredAnywhere(body, name) ==
    \* variant: the parser of every file is told that the plugin is declared
    TRUE
\* PluginManager.isDeclared (plugin.ts 56-58)
isDeclared(body, name) ==
    \E i \in 1..Len(DeclaredPlugins(body, 1, <<>>)) :
        DeclaredPlugins(body, 1, <<>>)[i].name = name

\* the bodies of a list of branches or cases, one after the other
RECURSIVE Bodies(_, _)
Bodies(parts, i) == IF i > Len(parts) THEN <<>> ELSE parts[i].body \o Bodies(parts, i + 1)
\* the first plugin-gated keyword the parser meets in a list of statements:
\* `route` at the top level (parser.ts 64-71), `respond` wherever a
\* statement stands (parser.ts 350-356); "" when there is none
RECURSIVE GatedKeyword(_, _)
GatedKeyword(body, i) ==
    IF i > Len(body) THEN ""
    ELSE LET node == body[i]
             here == CASE node.type = "RouteStatement" -> "route"
                       [] node.type = "RespondStatement" -> "respond"
                       [] node.type \in {"TaskDeclaration", "MarchLoop"} ->
                            GatedKeyword(node.body, 1)
                       [] node.type = "IfStatement" ->
                            GatedKeyword(Bodies(node.conditions, 1), 1)
                       [] node.type = "SelectStatement" ->
                            GatedKeyword(Bodies(node.cases, 1), 1)
                       [] node.type = "GroupDeclaration" ->
                            GatedKeyword(Bodies(node.methods, 1), 1)
                       [] OTHER -> ""
         IN IF here # "" THEN here ELSE GatedKeyword(body, i + 1)
\* the error Parser.parse throws for a file; "" when it parses
ParseError(body) ==
    IF \E i \in 1..Len(body) :
           body[i].type = "DeclareStatement" /\ body[i].plugin \notin KnownPlugins
    THEN "Unknown plugin: "
         \o body[CHOOSE i \in 1..Len(body) :
                     /\ body[i].type = "DeclareStatement" /\ body[i].plugin \notin KnownPlugins
                     /\ \A j \in 1..(i - 1) :
                            ~(body[j].type = "DeclareStatement"
                              /\ body[j].plugin \notin KnownPlugins)].plugin
    ELSE IF GatedKeyword(body, 1) # "" /\ ~isDeclared(body, "web")
    THEN "Feature '" \o GatedKeyword(body, 1) \o "' requires declare web at top of file"
    ELSE ""

\* Interpreter.handleDeclare (interpreter.ts 381-399)
handleDeclare(node, env, self, s) ==
    IF node.plugin \notin KnownPlugins THEN Throw(s, "Unknown plugin: " \o node.plugin)
    ELSE Then(IF node.argument = NoNode THEN Normal(s, Null)
              ELSE EvalExpr(node.argument, env, self, s),
              LAMBDA a : Normal(SetAll(a.st, env, PluginBuiltins(node.plugin)), Null))

\* Interpreter.declareVariable (interpreter.ts 599-620)
Declared(s0, s1, node, env, v) ==
    Log(s1, [ev |-> "declare", env |-> env, name |-> node.name, mutable |-> node.mutable,
             v |-> v, after |-> Observe(s1, node.name, env),
             aboveBefore |-> Observe(s0, node.name, s0.envs[env].parent),
             aboveAfter |-> Observe(s1, node.name, s1.envs[env].parent)])
declareVariable(node, env, self, s) ==
    Then(IF node.initializer = NoNode THEN Normal(s, Null)
         ELSE EvalExpr(node.initializer, env, self, s),
         LAMBDA r : Normal(Declared(r.st, EnvSet(r.st, env, node.name,
                                                 Binding(r.v, node.mutable)),
                                    node, env, r.v), Null))

\* obj[prop] = value.  A field of a group instance is written by its setter
\* (interpreter.ts 469-475); writes to the objects of literals are not kept
SetPropertyNoCheck(obj, prop, value, s) ==
    \* variant: the setter of a field does not look at its mutability
    CASE obj.t \in {"null", "undefined"} ->
           Throw(s, "Cannot set properties of " \o obj.t \o " (setting '" \o prop \o "')")
      [] obj.t = "instance" /\ prop \in s.instances[obj.n].fields ->
           Normal(EnvSet(s, s.instances[obj.n].env, prop, Binding(value, TRUE)), Undefined)
      [] obj.t = "instance" ->
           Normal([s EXCEPT !.instances[obj.n].props = MapSet(@, prop, value)], Undefined)
      [] OTHER -> Normal(s, Undefined)
SetProperty(obj, prop, value, s) ==
    CASE obj.t \in {"null", "undefined"} ->
           Throw(s, "Cannot set properties of " \o obj.t \o " (setting '" \o prop \o "')")
      [] obj.t = "instance" /\ prop \in s.instances[obj.n].fields ->
           LET env == s.instances[obj.n].env IN
           IF ~(prop \in DOMAIN s.envs[env].vars /\ s.envs[env].vars[prop].mutable)
           THEN Throw(s, "Cannot reassign immutable variable: " \o prop)
           ELSE Normal(EnvSet(s, env, prop, Binding(value, TRUE)), Undefined)
      [] obj.t = "instance" ->
           Normal([s EXCEPT !.instances[obj.n].props = MapSet(@, prop, value)], Undefined)
      [] OTHER -> Normal(s, Undefined)
\* what a member assignment did: the field's binding before and after
MemberAssigned(s0, w, obj, prop, v) ==
    LET env == IF obj.t = "instance" THEN s0.instances[obj.n].env ELSE 0 IN
    [st |-> Log(w.st, [ev |-> "memberAssign", obj |-> obj, name |-> prop, v |-> v,
                       k |-> w.k, msg |-> w.v.s,
                       before |-> Observe(s0, prop, env),
                       after |-> Observe(w.st, prop, env),
                       read |-> GetProperty(obj, prop, w.st).v]),
     k |-> w.k,
     v |-> IF w.k = "normal" THEN v ELSE w.v]
assignMember(node, value, env, self, s) ==
    Then(EvalExpr(node.target.object, env, self, s), LAMBDA o :
    Then(PropertyName(node.target, env, self, o.st), LAMBDA p :
         MemberAssigned(p.st, SetProperty(o.v, p.v.s, value, p.st), o.v, p.v.s, value)))

\* Interpreter.assignVariable (interpreter.ts 622-637)
Assigned(s0, w, name, env, v) ==
    [st |-> Log(w.st, [ev |-> "assign", env |-> env, name |-> name, v |-> v,
                       k |-> w.k, msg |-> w.v.s,
                       before |-> Observe(s0, name, env),
                       after |-> Observe(w.st, name, env),
                       above |-> Observe(w.st, name, w.st.envs[env].parent)]),
     k |-> w.k,
     v |-> IF w.k = "normal" THEN v ELSE w.v]
assignVariable(node, env, self, s) ==
    Then(EvalExpr(node.value, env, self, s), LAMBDA r :
         CASE node.target.type = "Identifier" ->
                Assigned(r.st, setVariable(r.st, node.target.name, r.v, env),
                         node.target.name, env, r.v)
           [] node.target.type = "MemberExpression" -> assignMember(node, r.v, env, self, r.st)
           [] OTHER -> r)

\* Interpreter.defineGroup (interpreter.ts 415-437): of two methods with one
\* name the later is kept
defineGroup(node, env, self, s) ==
    LET names == {node.methods[j].name : j \in 1..Len(node.methods)}
        methods == [m \in names |->
                       node.methods[CHOOSE j \in 1..Len(node.methods) :
                           /\ node.methods[j].name = m
                           /\ \A k \in (j+1)..Len(node.methods) : node.methods[k].name # m]]
    IN Normal(EnvSet([s EXCEPT !.interps[self].groups =
                         MapSet(@, node.name, [name |-> node.name, fields |-> node.fields,
                                               methods |-> methods,
                                               implementations |-> <<>>])],
                     env, node.name, Binding(GroupConstructor(self, node.name), FALSE)),
              Null)

\* a Map of the methods of a declaration by name: the last of a name stays
MethodMap(methods) ==
    [m \in {methods[j].name : j \in 1..Len(methods)} |->
        methods[CHOOSE j \in 1..Len(methods) :
                    /\ methods[j].name = m
                    /\ \A k \in (j+1)..Len(methods) : methods[k].name # m]]
\* implementations.set(blueprintName, methods): a name that is there keeps
\* its place
SetImplementation(implementations, name, methods) ==
    IF \E i \in 1..Len(implementations) : implementations[i].blueprint = name
    THEN [i \in 1..Len(implementations) |->
             IF implementations[i].blueprint = name
             THEN [blueprint |-> name, methods |-> methods] ELSE implementations[i]]
    ELSE Append(implementations, [blueprint |-> name, methods |-> methods])
\* Interpreter.defineBlueprint (interpreter.ts 498-511)
defineBlueprint(node, env, self, s) ==
    Normal([s EXCEPT !.interps[self].blueprints =
               MapSet(@, node.name, [name |-> node.name,
                                     methods |-> MethodMap(node.methods)])], Null)
\* Interpreter.implementBlueprint (interpreter.ts 513-527): the methods are
\* set under the blueprint's name in the implementations of the group
implementBlueprint(node, env, self, s) ==
    IF node.groupName \notin DOMAIN s.interps[self].groups
    THEN Throw(s, "Unknown group: " \o node.groupName)
    ELSE Normal([s EXCEPT !.interps[self].groups[node.groupName].implementations =
                    SetImplementation(@, node.blueprintName, MethodMap(node.methods))],
                Null)

\* Interpreter.defineTask (interpreter.ts 529-537)
defineTask(node, env, self, s) ==
    Normal(EnvSet([s EXCEPT !.tasks = Append(@, [node |-> node, env |-> env,
                                                  self |-> self])],
                  env, node.name, Binding(TaskFn(Len(s.tasks) + 1), FALSE)), Null)

\* Interpreter.executePrint (interpreter.ts 639-658)
printParts(exprs, i, env, self, s, acc) ==
    IF i > Len(exprs) THEN Normal([s EXCEPT !.console = Append(@, acc)], Null)
    ELSE Then(EvalExpr(exprs[i], env, self, s), LAMBDA r :
         Then(IF IsFunction(r.v) /\ exprs[i].type = "Identifier"
              THEN CallFunction(r.v, <<>>, r.st) ELSE r, LAMBDA c :
              PrintParts(exprs, i + 1, env, self, c.st, acc \o stringify(c.v))))
executePrint(node, env, self, s) == PrintParts(node.expressions, 1, env, self, s, "")

branchBodyAll(stmts, i, env, self, s) ==
    \* variant: the results of the statements of a branch are not looked at
    IF i > Len(stmts) THEN Normal(s, Null)
    ELSE Then(EvalStmt(stmts[i], env, self, s),
              LAMBDA r : BranchBody(stmts, i + 1, env, self, r.st))
\* the statements of one branch of executeIf: a respond result is returned at
\* once (interpreter.ts 664-670, 675-681)
branchBody(stmts, i, env, self, s) ==
    IF i > Len(stmts) THEN Normal(s, Null)
    ELSE Then(EvalStmt(stmts[i], env, self, s), LAMBDA r :
              IF IsRespond(r.v) THEN r
              ELSE BranchBody(stmts, i + 1, env, self, r.st))

\* Interpreter.executeIf (interpreter.ts 660-688): the first branch whose
\* condition is truthy, or the otherwise branch, runs in env itself
ifBranches(branches, i, env, self, s) ==
    IF i > Len(branches) THEN Normal(s, Null)
    ELSE IF branches[i].condition = NoNode
         THEN BranchBody(branches[i].body, 1, env, self, s)
    ELSE Then(EvalExpr(branches[i].condition, env, self, s), LAMBDA c :
              IF isTruthy(c.v) THEN BranchBody(branches[i].body, 1, env, self, c.st)
              ELSE IfBranches(branches, i + 1, env, self, c.st))
executeIf(node, env, self, s) == IfBranches(node.conditions, 1, env, self, s)

\* Interpreter.executeMarchLoop (interpreter.ts 709-723): each iteration in a
\* fresh environment under env that binds the loop variable, immutable
marchIter(node, i, end, env, self, s) ==
    IF i > end THEN Normal(s, Null)
    ELSE Then(ExecBody(node.body, 1, Len(s.envs) + 1, self,
                       Log(NewEnv(s, env, [n \in {node.variable} |->
                                              Binding(Num(i), FALSE)], "loop"),
                           [ev |-> "scope", kind |-> "loop", env |-> Len(s.envs) + 1])),
              LAMBDA r : MarchIter(node, i + 1, end, env, self, r.st))
executeMarchLoop(node, env, self, s) ==
    Then(EvalExpr(node.start, env, self, s), LAMBDA a :
    Then(EvalExpr(node.end, env, self, a.st), LAMBDA b :
         IF isNaN(Number(a.v)) \/ isNaN(Number(b.v)) THEN Normal(b.st, Null)
         ELSE MarchIter(node, Number(a.v).n, Number(b.v).n, env, self, b.st)))

\* obj.hasOwnProperty(key) for the objects of the model
HasOwnProperty(obj, key) ==
    CASE obj = JsonObject -> key \in {"stringify", "parse"}
      [] obj.t = "module" -> key \in {"__routes", "__env", "__ast"}
      [] obj.t = "respond" -> key \in {"__respond", "content", "statusCode", "contentType"}
      [] obj.t \in {"string", "array"} -> key = "length"
      [] obj.t \in {"object", "instance"} -> key \in Keys(obj)
      [] OTHER -> FALSE

\* Interpreter.executeSelect (interpreter.ts 725-749): the conditions of a
\* case, then its body in env itself; every case whose key the object has
selectConds(conds, i, env, self, s) ==
    IF i > Len(conds) THEN Normal(s, Bool(TRUE))
    ELSE Then(EvalExpr(conds[i], env, self, s), LAMBDA c :
              IF isTruthy(c.v) THEN SelectConds(conds, i + 1, env, self, c.st)
              ELSE Normal(c.st, Bool(FALSE)))
selectCases(node, i, obj, env, self, s) ==
    IF i > Len(node.cases) THEN Normal(s, Null)
    ELSE IF ~HasOwnProperty(obj, node.cases[i].key)
         THEN SelectCases(node, i + 1, obj, env, self, s)
    ELSE Then(SelectConds(node.cases[i].conditions, 1, env, self, s), LAMBDA c :
         Then(IF c.v = Bool(TRUE) THEN ExecBody(node.cases[i].body, 1, env, self, c.st)
              ELSE Normal(c.st, Null), LAMBDA r :
              SelectCases(node, i + 1, obj, env, self, r.st)))
executeSelect(node, env, self, s) ==
    Then(EvalExpr(node.expression, env, self, s), LAMBDA o :
         IF o.v.t \in {"null", "undefined"}
         THEN Throw(o.st, "Cannot read properties of " \o o.v.t
                          \o " (reading 'hasOwnProperty')")
         ELSE SelectCases(node, 1, o.v, env, self, o.st))

\* JSON.stringify of the values a respond statement is given
JsonStringify(v) ==
    CASE v.t = "string" -> Str("\"" \o v.s \o "\"")
      [] v.t = "number" -> Str(IF isNaN(v) \/ Den(v) = 0 THEN "null" ELSE NumberString(v))
      [] v.t = "boolean" -> Str(IF v.n = 1 THEN "true" ELSE "false")
      [] v.t = "null" -> Str("null")
      [] v.t \in {"undefined", "function"} -> Undefined
      [] v.t = "array" -> Str("[" \o JsonElements(v.elems, 1) \o "]")
      [] OTHER -> Str("{}")

\* WebPlugin.execute for a RespondStatement (part_001 57-77)
handleRespond(node, env, self, s) ==
    Then(EvalExpr(IF node.options.json # NoNode THEN node.options.json ELSE node.content,
                  env, self, s), LAMBDA c :
    Then(IF node.options.status = NoNode THEN Normal(c.st, Num(200))
         ELSE EvalExpr(node.options.status, env, self, c.st), LAMBDA t :
         Normal(t.st,
                RespondValue(IF node.options.json # NoNode THEN JsonStringify(c.v)
                             ELSE Str(stringify(c.v)),
                             t.v,
                             IF node.options.json # NoNode THEN "application/json"
                             ELSE "text/plain"))))

RECURSIVE JoinSegs(_)
JoinSegs(segs) ==
    IF segs = <<>> THEN ""
    ELSE IF Len(segs) = 1 THEN segs[1]
    ELSE segs[1] \o "/" \o JoinSegs(Tail(segs))
PathString(p) == (IF p.abs THEN "/" ELSE "") \o JoinSegs(p.segs)
IsRoute(n) == n.type = "RouteStatement"

(***************************************************************************)
(* Interpreter.handleUse (interpreter.ts 314-379)                          *)
(***************************************************************************)
\* the module path, which is also the key of the module cache (315-325)
UsePath(node, currentFilePath) ==
    IF node.path # NoPath THEN resolve(dirname(currentFilePath), node.path)
    ELSE join(dirname(currentFilePath), node.name \o ".fk")

\* the exports object is cached and bound (365-375)
exportModule(node, env, self, modulePath, file, m, s) ==
    Normal(EnvSet([s EXCEPT !.modules = Append(@, [routes |-> SelectSeq(FileBody(file), IsRoute),
                                                   env |-> s.interps[m].globalEnv,
                                                   file |-> file, by |-> self,
                                                   key |-> modulePath]),
                            !.interps[self].loadedModules =
                                MapSet(@, modulePath, Len(s.modules) + 1)],
                  env, node.name, Binding(ModuleValue(Len(s.modules) + 1), FALSE)), Null)

\* the module's statements run in a new interpreter's global environment
\* (353-363); s1 is the heap holding that interpreter
runModule(node, env, self, modulePath, file, s1) ==
    Then(ExecBody(FileBody(file), 1, s1.interps[Len(s1.interps)].globalEnv,
                  Len(s1.interps), s1),
         LAMBDA r : exportModule(node, env, self, modulePath, file, Len(s1.interps), r.st))

\* s.loading is the chain of the files whose statements are being run by
\* handleUse, the outermost first: a file enters it when its interpreter is
\* made (353) and leaves it when its last statement has returned or a
\* statement has thrown.  The outcome "loading" is that of a run cut off
\* with MaxLoads files in the chain: none of the loads has returned.
Enter(s, file) == [s EXCEPT !.loading = Append(@, file)]
Leave(r) ==
    IF r.k = "loading" THEN r
    ELSE [r EXCEPT !.st.loading = SubSeq(@, 1, Len(@) - 1)]
StillLoading(s) == [st |-> s, k |-> "loading", v |-> Null]
\* the file is read and parsed (335-351)
loadModule(node, env, self, s, modulePath, file) ==
    IF ~FileExists(file) THEN Throw(s, "ENOENT: no such file or directory")
    ELSE IF ParseError(FileBody(file)) # "" THEN Throw(s, ParseError(FileBody(file)))
    ELSE IF Len(s.loading) + 1 >= MaxLoads
    THEN StillLoading(Log(NewInterpreter(Enter(s, file), modulePath),
                          [ev |-> "load", path |-> file]))
    ELSE Leave(runModule(node, env, self, modulePath, file,
                         Log(NewInterpreter(Enter(s, file), modulePath),
                             [ev |-> "load", path |-> file])))

\* the catch of handleUse (376-378)
WrapLoadError(modulePath, r) ==
    IF r.k \in {"normal", "loading"} THEN r
    ELSE Throw(r.st, "Failed to load module " \o PathString(modulePath) \o ": "
                     \o (IF r.k = "error" THEN r.v.s ELSE "[object Object]"))

\* the module cache is asked first (327-332)
useModule(node, env, self, s, modulePath) ==
    IF modulePath \in DOMAIN s.interps[self].loadedModules
    THEN Normal(EnvSet(s, env, node.name,
                       Binding(ModuleValue(s.interps[self].loadedModules[modulePath]),
                               FALSE)), Null)
    ELSE WrapLoadError(modulePath,
                       loadModule(node, env, self, s, modulePath, AbsolutePath(modulePath)))

handleUse(node, env, self, s) ==
    useModule(node, env, self, s, UsePath(node, s.interps[self].currentFilePath))

\* ExpressionStatement (interpreter.ts 153-178): a bare identifier that holds a
\* function is called with no arguments
expressionStatement(node, env, self, s) ==
    Then(EvalExpr(node.expression, env, self, s), LAMBDA r :
         IF node.expression.type \in {"Identifier", "MemberExpression"} /\ IsFunction(r.v)
         THEN CallFunction(r.v, <<>>, r.st)
         ELSE r)

\* ReturnStatement (interpreter.ts 148-151): throws { __return: true, value }
returnStatement(node, env, self, s) ==
    Then(IF node.value = NoNode THEN Normal(s, Undefined)
         ELSE EvalExpr(node.value, env, self, s),
         LAMBDA r : ThrowReturn(Log(r.st, [ev |-> "give", env |-> env, v |-> r.v]), r.v))

(***************************************************************************)
(* Interpreter.evaluateStatement (interpreter.ts 92-183).  The trace gets  *)
(* a "stmt" event when a statement starts and a "done" event, naming the   *)
(* position of that "stmt" event, when it has returned or thrown.          *)
(***************************************************************************)
statement(node, env, self, s) ==
    CASE node.type = "DeclareStatement" -> handleDeclare(node, env, self, s)
      [] node.type = "UseStatement" -> handleUse(node, env, self, s)
      [] node.type = "RouteStatement" -> Normal(s, Null)
      [] node.type = "RespondStatement" -> handleRespond(node, env, self, s)
      [] node.type = "GroupDeclaration" -> defineGroup(node, env, self, s)
      [] node.type = "BlueprintDeclaration" -> defineBlueprint(node, env, self, s)
      [] node.type = "DoImplementation" -> implementBlueprint(node, env, self, s)
      [] node.type = "TaskDeclaration" -> defineTask(node, env, self, s)
      [] node.type = "VariableDeclaration" -> declareVariable(node, env, self, s)
      [] node.type = "Assignment" -> assignVariable(node, env, self, s)
      [] node.type = "PrintStatement" -> executePrint(node, env, self, s)
      [] node.type = "IfStatement" -> executeIf(node, env, self, s)
      [] node.type = "MarchLoop" -> executeMarchLoop(node, env, self, s)
      [] node.type = "SelectStatement" -> executeSelect(node, env, self, s)
      [] node.type = "ReturnStatement" -> returnStatement(node, env, self, s)
      [] node.type = "ExpressionStatement" -> expressionStatement(node, env, self, s)
      [] OTHER -> Throw(s, "Unknown statement type: " \o node.type)
StatementDone(id, r) ==
    [r EXCEPT !.st = Log(@, [ev |-> "done", id |-> id, k |-> r.k])]
evaluateStatement(node, env, self, s) ==
    StatementDone(Len(s.trace) + 1,
                  statement(node, env, self,
                            Log(s, [ev |-> "stmt", env |-> env, type |-> node.type])))

(***************************************************************************)
(* The web plugin (src/unnamed/part_001).  Strings of JavaScript.          *)
(***************************************************************************)
\* String.prototype.startsWith
startsWith(str, prefix) ==
    Len(prefix) <= Len(str) /\ SubSeq(str, 1, Len(prefix)) = prefix
\* String.prototype.substring(start)
substring(str, start) ==
    IF start >= Len(str) THEN "" ELSE SubSeq(str, start + 1, Len(str))
\* String.prototype.indexOf(":"), counted from 1; 0 when there is none
IndexOfColon(str) ==
    IF \E i \in 1..Len(str) : SubSeq(str, i, i) = ":"
    THEN CHOOSE i \in 1..Len(str) :
             SubSeq(str, i, i) = ":" /\ \A j \in 1..(i - 1) : SubSeq(str, j, j) # ":"
    ELSE 0
\* str.split(':')[0] and the rest after the first colon
BeforeColon(str) ==
    IF IndexOfColon(str) = 0 THEN str ELSE SubSeq(str, 1, IndexOfColon(str) - 1)
AfterColon(str) ==
    IF IndexOfColon(str) = 0 THEN "" ELSE substring(str, IndexOfColon(str))
\* String.prototype.indexOf(ch), counted from 1; 0 when there is none
indexOf(str, ch) ==
    IF \E i \in 1..Len(str) : SubSeq(str, i, i) = ch
    THEN CHOOSE i \in 1..Len(str) :
             SubSeq(str, i, i) = ch /\ \A j \in 1..(i - 1) : SubSeq(str, j, j) # ch
    ELSE 0
\* new URL(fullUrl).pathname and .search without its "?" (part_001 174-175)
pathname(url) ==
    IF indexOf(url, "?") = 0 THEN url ELSE SubSeq(url, 1, indexOf(url, "?") - 1)
search(url) ==
    IF indexOf(url, "?") = 0 THEN "" ELSE substring(url, indexOf(url, "?"))
\* parsedUrl.searchParams.forEach((value, key) => queryParams[key] = value)
\* (part_001 176-179), for a search component of at most one `key=value`
queryParams(url) ==
    IF search(url) = "" THEN [k \in {} |-> Null]
    ELSE IF indexOf(search(url), "=") = 0 THEN [k \in {search(url)} |-> Str("")]
    ELSE [k \in {SubSeq(search(url), 1, indexOf(search(url), "=") - 1)} |->
             Str(substring(search(url), indexOf(search(url), "=")))]
\* `const [, routePath] = routeKey.split(':')` (part_001 153): the second
\* field of the key
SplitSecond(routeKey) == BeforeColon(AfterColon(routeKey))
\* the falsy values of JavaScript, for `x || default`
Falsy(v) ==
    \/ v.t \in {"null", "undefined"}
    \/ v.t = "boolean" /\ v.n = 0
    \/ v.t = "string" /\ v.s = ""
    \/ v.t = "number" /\ (v.n = 0 \/ isNaN(v))

(***************************************************************************)
(* collectRoutes (part_001 94-122): the route table is a Map, here the     *)
(* sequence of its entries in insertion order.                             *)
(***************************************************************************)
NoRoute == [method |-> "", path |-> "", fullPath |-> "", forward |-> "", body |-> <<>>,
            isForwarding |-> FALSE, found |-> FALSE]
Route(node, fullPath, method) ==
    [method |-> method, path |-> node.path, fullPath |-> fullPath,
     forward |-> node.forward, body |-> node.body,
     isForwarding |-> node.forward # "", found |-> TRUE]
\* Map.prototype.set: an existing key keeps its place
MapSetEntry(routes, key, route) ==
    IF \E i \in 1..Len(routes) : routes[i].key = key
    THEN [i \in 1..Len(routes) |->
             IF routes[i].key = key THEN [key |-> key, route |-> route] ELSE routes[i]]
    ELSE Append(routes, [key |-> key, route |-> route])
\* Map.prototype.get
MapGetEntry(routes, key) ==
    IF \E i \in 1..Len(routes) : routes[i].key = key
    THEN (CHOOSE e \in {routes[i] : i \in 1..Len(routes)} : e.key = key).route
    ELSE NoRoute
HasBody(node) == node.type \in {"TaskDeclaration", "MarchLoop", "RouteStatement"}
RECURSIVE collectRoutes(_, _, _, _)
\* collectRoutes applied to the nodes of a body from the i-th on
collectRoutes(nodes, i, prefix, routes) ==
    \* (Len(routes) is asked for so that the table is computed before the walk
    \* goes on)
    IF i > Len(nodes) \/ Len(routes) < 0 THEN routes
    ELSE LET node == nodes[i]
             method == IF IsRoute(node) /\ node.method # "" THEN node.method ELSE "GET"
             set == IF IsRoute(node)
                    THEN MapSetEntry(routes, method \o ":" \o prefix \o node.path,
                                     Route(node, prefix \o node.path, method))
                    ELSE routes
         IN collectRoutes(nodes, i + 1, prefix,
                          IF HasBody(node) THEN collectRoutes(node.body, 1, prefix, set)
                          ELSE set)
\* collectRoutes(context.env.__program): the body of the Program node is
\* walked by both loops (part_001 111-116)
CollectProgram(body) == collectRoutes(body, 1, "", collectRoutes(body, 1, "", <<>>))

IsWebModuleNever(body) ==
    \* variant: the argument of the declaration is not looked at
    FALSE
\* the argument of `declare web` (parser.ts 97-110): @module stops the server
IsWebModule(body) ==
    \E i \in 1..Len(body) :
        /\ body[i].type = "DeclareStatement" /\ body[i].plugin = "web"
        /\ body[i].argument = Literal(Str("module"))
        /\ \A j \in (i + 1)..Len(body) :
               ~(body[j].type = "DeclareStatement" /\ body[j].plugin = "web")
\* WebPlugin.onFileComplete (part_001 82-135, 281): the server that listens
\* after the program has run
onFileComplete(body, srv) ==
    IF ~DeclaresPlugin(body, "web") \/ IsWebModule(body) \/ CollectProgram(body) = <<>>
    THEN srv
    ELSE [listening |-> TRUE, routes |-> CollectProgram(body)]

\* of the four builtin plugins only the web plugin has an onFileComplete
\* (part_001 82, 288-406)
HasFileCompleteHook(name) == name = "web"
\* PluginManager.runFileCompleteHooks (plugin.ts 68-75): the declared
\* plugins in the order of the Map; `hooks` gets an entry for each
RECURSIVE runFileCompleteHooks(_, _, _, _, _)
runFileCompleteHooks(declared, i, body, srv, hooks) ==
    IF i > Len(declared) \/ Len(hooks) < 0 THEN [server |-> srv, hooks |-> hooks]
    ELSE runFileCompleteHooks(declared, i + 1, body,
             IF declared[i].name = "web" THEN onFileComplete(body, srv) ELSE srv,
             Append(hooks, [plugin |-> declared[i].name,
                            called |-> HasFileCompleteHook(declared[i].name)]))

(***************************************************************************)
(* The route lookup of the request callback (part_001 137-167)             *)
(***************************************************************************)
\* the first forwarding route, in table order, that the scan accepts
ForwardScan(routes, url) ==
    IF \E i \in 1..Len(routes) :
           routes[i].route.isForwarding /\ startsWith(url, SplitSecond(routes[i].key))
    THEN routes[CHOOSE i \in 1..Len(routes) :
                    /\ routes[i].route.isForwarding
                    /\ startsWith(url, SplitSecond(routes[i].key))
                    /\ \A j \in 1..(i - 1) :
                           ~(routes[j].route.isForwarding
                             /\ startsWith(url, SplitSecond(routes[j].key)))].route
    ELSE NoRoute
\* `if (!route && method === 'GET') route = routes.get(`GET:${url}`)`
RetryAsGet(routes, method, url, route) ==
    IF ~route.found /\ method = "GET" THEN MapGetEntry(routes, "GET:" \o url) ELSE route
ScanIfNone(routes, url, route) ==
    IF ~route.found THEN ForwardScan(routes, url) ELSE route
LookupRoute(routes, method, url) ==
    ScanIfNone(routes, url,
               RetryAsGet(routes, method, url, MapGetEntry(routes, method \o ":" \o url)))

(***************************************************************************)
(* Requests.  phase: "body" (awaiting parseRequestBody), "sleeping" (the   *)
(* handler awaits the timer of sleep), "done" (the response is written).   *)
(***************************************************************************)
NoResponse == [status |-> 0, body |-> "", contentType |-> ""]
Response(code, body, contentType) ==
    [status |-> code, body |-> body, contentType |-> contentType]
NoRespond == [responseContent |-> Str(""), statusCode |-> Num(200),
              contentType |-> "text/plain", firstAt |-> 0, first |-> Null]
NewRequest(method, url, route) ==
    [method |-> method, url |-> url, phase |-> "body", route |-> route,
     remainingPath |-> "", body |-> <<>>, env |-> 0, pc |-> 1, acc |-> NoRespond,
     raised |-> [k |-> "normal", v |-> Null], response |-> NoResponse, writes |-> 0]
\* res.writeHead(status, {'Content-Type': contentType}); res.end(body)
Write(r, code, body, contentType) ==
    [r EXCEPT !.phase = "done", !.response = Response(code, body, contentType),
              !.writes = @ + 1]

\* part_001 142-171: the lookup, then 404 or the await of the request body
AcceptUnanswered(method, url, route) ==
    \* variant: the callback returns without a response when no route is found
    IF ~route.found
    THEN [NewRequest(method, url, route) EXCEPT !.phase = "done"]
    ELSE NewRequest(method, url, route)
Accept(method, url, route) ==
    IF ~route.found
    THEN Write(NewRequest(method, url, route), 404, "Not Found", "text/plain")
    ELSE NewRequest(method, url, route)

\* the variables of the route-scoped environment (part_001 215-223, 247-255)
ObjectValue(name) == [t |-> "object", n |-> 0, s |-> name]
RequestVars(r) ==
    [n \in {"req", "body", "query", "headers"} |->
        Binding(CASE n = "body" -> Str("")
                  [] n = "query" -> [t |-> "object", n |-> 0, s |-> "query",
                                     props |-> queryParams(r.url)]
                  [] OTHER -> ObjectValue(n), FALSE)]

\* the result of one handler statement (part_001 233-237, 265-269)
Responded(acc, v, pc) ==
    IF IsRespond(v)
    THEN [responseContent |-> v.content,
          statusCode |-> IF Falsy(v.statusCode) THEN Num(200) ELSE v.statusCode,
          contentType |-> IF v.contentType = "" THEN "text/plain" ELSE v.contentType,
          firstAt |-> IF acc.firstAt = 0 THEN pc ELSE acc.firstAt,
          first |-> IF acc.firstAt = 0 THEN v ELSE acc.first]
    ELSE acc
\* whether the evaluation since trace position `mark` awaited the timer
Slept(s, mark) == \E j \in (mark + 1)..Len(s.trace) : s.trace[j].ev = "sleep"

HandlerLoop(stmts, pc, env, self, s, acc) ==
    Eval("handlerLoop", [stmts |-> stmts, pc |-> pc, env |-> env, self |-> self,
                         acc |-> acc], s)
\* `for (const statement of route.body) { const result = await
\* interpreter.evaluateStatement(statement, routeEnv); ... }`, run until the
\* loop ends, a statement throws, or a statement has awaited the timer
HandlerStep(stmts, pc, env, self, acc, mark, r) ==
    IF r.k # "normal"
    THEN [st |-> r.st, k |-> r.k, v |-> r.v, pc |-> pc, acc |-> acc, suspended |-> FALSE]
    ELSE IF Slept(r.st, mark)
    THEN [st |-> r.st, k |-> "normal", v |-> Null, pc |-> pc + 1,
          acc |-> Responded(acc, r.v, pc), suspended |-> TRUE]
    ELSE HandlerLoop(stmts, pc + 1, env, self, r.st, Responded(acc, r.v, pc))
handlerLoop(stmts, pc, env, self, s, acc) ==
    IF pc > Len(stmts)
    THEN [st |-> s, k |-> "normal", v |-> Null, pc |-> pc, acc |-> acc, suspended |-> FALSE]
    ELSE HandlerStep(stmts, pc, env, self, acc, Len(s.trace),
                     EvalStmt(stmts[pc], env, self, s))

\* the catch of the request callback (part_001 275-278)
ErrorBodyBare(h) ==
    \* variant: the body is the message alone
    IF h.k = "error" THEN h.v.s ELSE "[object Object]"
ErrorBody(h) ==
    "Error: " \o (IF h.k = "error" THEN h.v.s ELSE "[object Object]")

\* what the handler loop's end, throw or suspension makes of the request
Finish(r, h) ==
    [st |-> h.st,
     req |-> CASE h.k # "normal" ->
                    Write([r EXCEPT !.pc = h.pc, !.acc = h.acc,
                                    !.raised = [k |-> h.k, v |-> h.v]],
                          500, ErrorBody(h), "text/plain")
               [] h.k = "normal" /\ h.suspended ->
                    [r EXCEPT !.pc = h.pc, !.acc = h.acc, !.phase = "sleeping"]
               [] OTHER ->
                    Write([r EXCEPT !.pc = h.pc, !.acc = h.acc],
                          h.acc.statusCode.n,
                          IF Falsy(h.acc.responseContent) THEN "OK"
                          ELSE h.acc.responseContent.s,
                          h.acc.contentType)]
RunHandler(r, s) == Finish(r, HandlerLoop(r.body, r.pc, r.env, MainInterp, s, r.acc))

\* a handler's environment is a new one on top of `parent`
RouteEnvCopied(s, parent, r) ==
    \* variant: every request gets its own copy of the parent environment
    NewEnv(NewEnv(s, s.envs[parent].parent, s.envs[parent].vars, s.envs[parent].kind),
           Len(s.envs) + 1, RequestVars(r), "route")
RouteEnvInParent(s, parent, r) ==
    \* variant: the request's bindings are set in the parent as well
    NewEnv([s EXCEPT !.envs[parent].vars =
               [n \in DOMAIN @ \cup DOMAIN RequestVars(r) |->
                   IF n \in DOMAIN RequestVars(r) THEN RequestVars(r)[n] ELSE @[n]]],
           parent, RequestVars(r), "route")
RouteEnv(s, parent, r) == NewEnv(s, parent, RequestVars(r), "route")
StartHandler(r, s, body, parent) ==
    RunHandler([r EXCEPT !.body = body, !.env = Len(RouteEnv(s, parent, r).envs)],
               RouteEnv(s, parent, r))

\* part_001 245-274: the handler of a route of the main program
Local(r, s) == StartHandler(r, s, r.route.body, GlobalEnv)

\* part_001 193-243: the forwarded module's routes, matched by method and path
MatchForwarded(forwardedRoutes, method, remainingPath) ==
    IF \E i \in 1..Len(forwardedRoutes) :
           /\ (IF forwardedRoutes[i].method = "" THEN "GET" ELSE forwardedRoutes[i].method)
                  = method
           /\ forwardedRoutes[i].path = remainingPath
    THEN [found |-> TRUE,
          route |-> forwardedRoutes[CHOOSE i \in 1..Len(forwardedRoutes) :
              /\ (IF forwardedRoutes[i].method = "" THEN "GET"
                  ELSE forwardedRoutes[i].method) = method
              /\ forwardedRoutes[i].path = remainingPath
              /\ \A j \in 1..(i - 1) :
                     ~ /\ (IF forwardedRoutes[j].method = "" THEN "GET"
                           ELSE forwardedRoutes[j].method) = method
                       /\ forwardedRoutes[j].path = remainingPath]]
    ELSE [found |-> FALSE, route |-> NoNode]
RemainingPath(r) ==
    IF substring(r.url, Len(r.route.fullPath)) = "" THEN "/"
    ELSE substring(r.url, Len(r.route.fullPath))
ForwardMatched(r, s, target, m) ==
    IF ~m.found
    THEN [st |-> s,
          req |-> Write(r, 404, "Not Found in forwarded routes (looking for "
                                \o r.method \o " " \o r.remainingPath \o ")",
                        "text/plain")]
    ELSE StartHandler(r, s, m.route.body, s.modules[target.n].env)
ForwardTo(r, s, target) ==
    IF target.t \in {"null", "undefined"}
    THEN Finish(r, [st |-> s, k |-> "error",
                    v |-> Str("Cannot read properties of " \o target.t
                              \o " (reading '__routes')"),
                    pc |-> r.pc, acc |-> r.acc, suspended |-> FALSE])
    ELSE ForwardMatched([r EXCEPT !.remainingPath = RemainingPath(r)], s, target,
                        MatchForwarded(IF target.t = "module" THEN s.modules[target.n].routes
                                       ELSE <<>>,
                                       r.method, RemainingPath(r)))
\* part_001 184-191
Forward(r, s) ==
    IF r.route.forward \notin DOMAIN s.envs[GlobalEnv].vars
    THEN [st |-> s,
          req |-> Write(r, 500, "Forward target not found: " \o r.route.forward,
                        "text/plain")]
    ELSE ForwardTo(r, s, s.envs[GlobalEnv].vars[r.route.forward].value)

\* part_001 173-274, after the body has been read
Dispatch(r, s) ==
    IF r.route.isForwarding /\ r.route.forward # "" THEN Forward(r, s) ELSE Local(r, s)

Eval(op, a, s) ==
    CASE op = "evaluateExpression" -> evaluateExpression(a.node, a.env, a.self, s)
      [] op = "evaluateStatement" -> evaluateStatement(a.node, a.env, a.self, s)
      [] op = "evalList" -> evalList(a.nodes, a.i, a.env, a.self, s, a.acc)
      [] op = "execBody" -> execBody(a.stmts, a.i, a.env, a.self, s)
      [] op = "branchBody" -> branchBody(a.stmts, a.i, a.env, a.self, s)
      [] op = "ifBranches" -> ifBranches(a.branches, a.i, a.env, a.self, s)
      [] op = "marchIter" -> marchIter(a.node, a.i, a.end, a.env, a.self, s)
      [] op = "selectConds" -> selectConds(a.conds, a.i, a.env, a.self, s)
      [] op = "selectCases" -> selectCases(a.node, a.i, a.obj, a.env, a.self, s)
      [] op = "printParts" -> printParts(a.exprs, a.i, a.env, a.self, s, a.acc)
      [] op = "callFunction" -> callFunction(a.fn, a.args, s)
      [] op = "evaluateExpressionSync" -> evaluateExpressionSync(a.node, a.env, a.self, s)
      [] op = "syncList" -> syncList(a.nodes, a.i, a.env, a.self, s, a.acc)
      [] op = "initFields" ->
           initFields(a.fields, a.i, a.argIndex, a.args, a.env, a.self, s)
      [] op = "objectProps" ->
           objectProps(a.props, a.i, a.env, a.self, s, a.acc, a.sync)
      [] op = "handlerLoop" -> handlerLoop(a.stmts, a.pc, a.env, a.self, s, a.acc)

(***************************************************************************)
(* The main run: runFlick (part_000 10-41) constructs the interpreter for  *)
(* the main file and Interpreter.interpret (interpreter.ts 68-86)          *)
(* evaluates the program's top-level statements one after another in the   *)
(* global environment.  The program is the sequence of statements chosen.  *)
(***************************************************************************)
EmptyHeap == [envs |-> <<>>, tasks |-> <<>>, interps |-> <<>>, modules |-> <<>>,
              instances |-> <<>>, hooks |-> <<>>, console |-> <<>>, trace |-> <<>>,
              loading |-> <<>>]
\* the file path runFlick is given: absolute, or relative to Cwd as in
\* `flick run main.fk`
MainPaths == {Path(TRUE, <<"app", "main.fk">>), Path(FALSE, <<"main.fk">>)}
NoServer == [listening |-> FALSE, routes |-> <<>>]

Init ==
    /\ \E p \in MainPaths : st = NewInterpreter(EmptyHeap, p)
    /\ status = "running"
    /\ steps = 0
    /\ last = [stmt |-> NoNode, k |-> "normal", v |-> Null]
    /\ program = <<>>
    /\ server = NoServer
    /\ reqs = <<>>

\* Parser.parse (parser.ts 39-62): the `use` statements of a file come before
\* its other statements
InOrder(stmt) ==
    stmt.type = "UseStatement" => last.stmt.type \in {"None", "UseStatement"}

\* one iteration of interpret's loop: `await this.evaluateStatement(statement,
\* this.globalEnv)`; a throw rejects interpret and runFlick exits
Interpreted(stmt, r) ==
    /\ st' = r.st
    /\ last' = [stmt |-> stmt, k |-> r.k, v |-> r.v]
    /\ status' = CASE r.k = "normal" -> "running"
                    [] r.k = "loading" -> "loading"
                    [] OTHER -> "aborted"
Interpret(stmt) ==
    /\ status = "running"
    /\ Interpreted(stmt, EvalStmt(stmt, GlobalEnv, MainInterp, [st EXCEPT !.trace = <<>>]))
    /\ steps' = steps + 1
    /\ UNCHANGED <<server, reqs>>
\* the program is written as it runs: its next statement is any of `stmts`
Choose(stmts) ==
    \E stmt \in stmts :
        /\ steps < MaxSteps
        /\ InOrder(stmt)
        /\ program' = Append(program, stmt)
        /\ Interpret(stmt)

Call(name, args) == CallExpression(Identifier(name), args)
\* the `use` statements of the main program
UseStatements ==
    { UseStatement("Shared", NoPath),
      UseStatement("Alias", Path(FALSE, <<".", "Shared.fk">>)),
      UseStatement("Broken", NoPath) }
\* the statements after the main program's `use` block
ScopeStatements ==
    { VariableDeclaration("x", TRUE, Literal(Num(1))),
      VariableDeclaration("x", FALSE, Literal(Num(1))),
      Assignment(Identifier("x"), Literal(Num(2))),
      TaskDeclaration("setx", <<>>,
          << Assignment(Identifier("x"),
                        BinaryExpression("+", Identifier("x"), Literal(Num(3)))) >>),
      TaskDeclaration("local", <<"x">>,
          << VariableDeclaration("t", TRUE, Literal(Num(3))),
             Assignment(Identifier("x"), Identifier("t")) >>),
      ExpressionStatement(Identifier("setx")),
      ExpressionStatement(Call("local", <<Literal(Num(4))>>)),
      MarchLoop("i", Literal(Num(1)), Literal(Num(2)),
          << VariableDeclaration("t", TRUE, Identifier("i")),
             Assignment(Identifier("x"),
                        BinaryExpression("+", Identifier("x"), Identifier("t"))) >>),
      IfStatement(<< IfBranch(Literal(Bool(TRUE)),
                              << VariableDeclaration("y", TRUE, Literal(Num(1))),
                                 Assignment(Identifier("y"), Literal(Num(2))),
                                 VariableDeclaration("z", FALSE, Literal(Num(1))),
                                 Assignment(Identifier("z"), Literal(Num(3))) >>) >>),
      PrintStatement(<<Identifier("x")>>),
      PrintStatement(<<Identifier("t")>>) }
\* tasks that give from inside an if branch, a loop and a select case, and
\* their callers
GiveStatements ==
    { TaskDeclaration("early", <<"n">>,
          << IfStatement(<< IfBranch(BinaryExpression("==", Identifier("n"), Literal(Num(1))),
                                     << ReturnStatement(Literal(Num(5))),
                                        PrintStatement(<<Literal(Str("after give"))>>) >>) >>),
             MarchLoop("i", Literal(Num(1)), Literal(Num(2)),
                 << SelectStatement(Identifier("JSON"),
                        << SelectCase("parse", <<>>, <<ReturnStatement(Identifier("i"))>>) >>),
                    PrintStatement(<<Literal(Str("after select"))>>) >>),
             PrintStatement(<<Literal(Str("after loop"))>>) >>),
      TaskDeclaration("outer", <<>>,
          << VariableDeclaration("r", TRUE,
                 BinaryExpression("+", Call("early", <<Literal(Num(1))>>),
                                       Call("early", <<Literal(Num(2))>>))),
             PrintStatement(<<Literal(Str("outer continues ")), Identifier("r")>>),
             ReturnStatement(BinaryExpression("+", Identifier("r"), Literal(Num(1)))),
             PrintStatement(<<Literal(Str("after outer give"))>>) >>),
      ExpressionStatement(Call("early", <<Literal(Num(1))>>)),
      PrintStatement(<<Call("early", <<Literal(Num(2))>>)>>),
      PrintStatement(<<Identifier("outer")>>),
      ReturnStatement(Literal(Num(9))) }

InterpretUse == Choose(UseStatements)
InterpretStatement == Choose(ScopeStatements \cup GiveStatements)

\* the end of interpret's loop: runFileCompleteHooks (interpreter.ts 79-85,
\* plugin.ts 68-75)
Complete ==
    LET done == runFileCompleteHooks(DeclaredPlugins(program, 1, <<>>), 1, program,
                                     server, st.hooks)
    IN /\ status = "running"
       /\ steps = Len(program)
       /\ status' = "complete"
       /\ server' = done.server
       /\ st' = [st EXCEPT !.hooks = done.hooks]
       /\ UNCHANGED <<steps, last, program, reqs>>

Next == InterpretUse \/ InterpretStatement \/ Complete

Spec == Init /\ [][Next]_vars

(***************************************************************************)
(* The web server: the main program is WebProgram, run statement by        *)
(* statement; the server it starts then takes requests.  A request's       *)
(* callback runs without interruption up to an await that waits for I/O:   *)
(* the read of the request body, or the timer of sleep.                    *)
(***************************************************************************)
Respond(e) == RespondStatement(e, NoNode)
WebProgram ==
    << DeclareStatement("web", Literal(Num(3000))),
       DeclareStatement("time", NoNode),
       UseStatement("Mod", NoPath),
       VariableDeclaration("counter", TRUE, Literal(Num(0))),
       RouteStatement("GET", "/a", <<Respond(Literal(Str("A")))>>),
       RouteStatement("POST", "/a", <<Respond(Literal(Str("B")))>>),
       RouteStatement("", "/two",
           << Respond(Literal(Str("first"))),
              PrintStatement(<<Literal(Str("after respond"))>>),
              RespondStatement(Literal(Str("second")), Literal(Num(201))) >>),
       RouteStatement("GET", "/inc",
           << VariableDeclaration("c", TRUE, Identifier("counter")),
              ExpressionStatement(Call("sleep", <<Literal(Num(10))>>)),
              Assignment(Identifier("counter"),
                         BinaryExpression("+", Identifier("c"), Literal(Num(1)))),
              Respond(Identifier("counter")) >>),
       RouteStatement("GET", "/err",
           << PrintStatement(<<Identifier("nosuch")>>),
              Respond(Literal(Str("unreached"))) >>),
       RouteStatement("GET", "/give", <<ReturnStatement(Literal(Num(1)))>>),
       \* a respond in a `when` case of a select
       RouteStatement("GET", "/sel",
           << SelectStatement(Identifier("JSON"),
                  << SelectCase("parse", <<>>,
                         << PrintStatement(<<Literal(Str("in case"))>>),
                            RespondStatement(Literal(Str("S")), Literal(Num(202))) >>) >>),
              PrintStatement(<<Literal(Str("after select"))>>) >>),
       \* a respond in the otherwise branch of an if-statement in the maybe
       \* branch of an if-statement in the assume branch of an if-statement
       RouteStatement("GET", "/if",
           << IfStatement(<< IfBranch(Literal(Bool(TRUE)),
                  << PrintStatement(<<Literal(Str("outer before"))>>),
                     IfStatement(<< IfBranch(Literal(Bool(FALSE)), <<>>),
                                    IfBranch(Literal(Num(0)),
                         << IfStatement(<< IfBranch(Literal(Str("")), <<>>),
                                           IfBranch(NoNode,
                                << RespondStatement(Literal(Str("I")), Literal(Num(203))),
                                   PrintStatement(<<Literal(Str("inner after"))>>) >>) >>),
                            PrintStatement(<<Literal(Str("middle after"))>>) >>) >>),
                     PrintStatement(<<Literal(Str("outer after"))>>) >>) >>),
              PrintStatement(<<Literal(Str("after if"))>>) >>),
       ForwardRoute("", "/api", "Mod"),
       ForwardRoute("", "/v:1", "Mod"),
       ForwardRoute("", "/none", "Nope") >>
Methods == {"GET", "POST"}
Urls == {"/a", "/two", "/inc", "/err", "/give", "/sel", "/if", "/api/x", "/api", "/v/x",
         "/missing", "/none", "/api/decl", "/a?x=1", "/api/x?x=1"}

InitWeb ==
    /\ st = NewInterpreter(EmptyHeap, Path(FALSE, <<"main.fk">>))
    /\ status = "running"
    /\ steps = 0
    /\ last = [stmt |-> NoNode, k |-> "normal", v |-> Null]
    /\ program = WebProgram
    /\ server = NoServer
    /\ reqs = <<>>

\* interpret's loop over the statements of the program
InterpretNext ==
    /\ steps < Len(program)
    /\ Interpret(program[steps + 1])
    /\ UNCHANGED program

\* the request callback up to its first await (part_001 136-171)
Request(method, url) ==
    /\ server.listening
    /\ Len(reqs) < MaxRequests
    /\ reqs' = Append(reqs, Accept(method, url, LookupRoute(server.routes, method, url)))
    /\ UNCHANGED <<st, status, steps, last, program, server>>
Receive == \E method \in Methods, url \in Urls : Request(method, url)

Handled(i, h) ==
    /\ st' = h.st
    /\ reqs' = [reqs EXCEPT ![i] = h.req]
    /\ UNCHANGED <<status, steps, last, program, server>>
\* the request body has been read: the callback goes on to the handler
BodyParsed(i) ==
    /\ reqs[i].phase = "body"
    /\ Handled(i, Dispatch(reqs[i], [st EXCEPT !.trace = <<>>]))
\* the timer of sleep has fired: the handler loop goes on
TimerFires(i) ==
    /\ reqs[i].phase = "sleeping"
    /\ Handled(i, RunHandler(reqs[i], [st EXCEPT !.trace = <<>>]))
HandleRequest == \E i \in 1..Len(reqs) : BodyParsed(i)
ResumeRequest == \E i \in 1..Len(reqs) : TimerFires(i)

NextWeb == InterpretNext \/ Complete \/ Receive \/ HandleRequest \/ ResumeRequest

SpecWeb == InitWeb /\ [][NextWeb]_vars

\* The event loop of Node delivers the end of every request body it has
\* started to read (`req.on('end', ...)`, part_001 15) and fires every timer
\* that sleep has set: a request's callback that waits for either goes on.
\* This is weak fairness of BodyParsed(i) and of TimerFires(i), written out:
\* the action is enabled exactly while the request is in the phase it waits
\* in, so WF_vars(A) is []<>(not waiting) \/ []<><<A>>_vars.
Waits(i, phase) == i <= Len(reqs) /\ reqs[i].phase = phase
CallbackGoesOn(i) ==
    /\ []<>(~Waits(i, "body")) \/ []<><<Waits(i, "body") /\ BodyParsed(i)>>_vars
    /\ []<>(~Waits(i, "sleeping")) \/ []<><<Waits(i, "sleeping") /\ TimerFires(i)>>_vars
SpecWebFair == SpecWeb /\ \A i \in 1..MaxRequests : CallbackGoesOn(i)

(***************************************************************************)
(* The parser (src/temp_interpreter/parser.ts) on the tokens the lexer     *)
(* gives it, newlines filtered out.  A parse function takes the tokens and *)
(* the position it is at (from 1) and gives the node and the position      *)
(* after it, or the error it throws.  The sources of the model hold        *)
(* expressions and the statements that begin with print, free and lock.    *)
(***************************************************************************)
Token(type, value, column) ==
    [type |-> type, value |-> value, line |-> 1, column |-> column]
Parsed(node, pos) == [k |-> "ok", node |-> node, pos |-> pos, msg |-> ""]
ParseFailure(msg) == [k |-> "error", node |-> NoNode, pos |-> 0, msg |-> msg]
AndThen(r, Rest(_)) == IF r.k = "error" THEN r ELSE Rest(r)
\* Parser.peek, Parser.match, Parser.expect (parser.ts 18-37)
peek(tokens, pos, offset) ==
    IF pos + offset <= Len(tokens) THEN tokens[pos + offset] ELSE tokens[Len(tokens)]
match(tokens, pos, types) == peek(tokens, pos, 0).type \in types
expect(tokens, pos, type) ==
    LET token == peek(tokens, pos, 0) IN
    IF token.type # type
    THEN ParseFailure("Expected " \o type \o " but got " \o token.type \o " at line "
                      \o ToString(token.line) \o ", column " \o ToString(token.column))
    ELSE Parsed(token, pos + 1)

UnaryExpression(operator, operand) ==
    [type |-> "UnaryExpression", operator |-> operator, operand |-> operand]
\* the tokens an argument of a call without parentheses begins with
ArgumentStart == {"STRING", "NUMBER", "IDENTIFIER", "LBRACE", "LBRACKET"}
ComparisonOperators ==
    {"EQUALS", "NOT_EQUALS", "LESS_THAN", "GREATER_THAN", "LESS_EQUAL", "GREATER_EQUAL"}

RECURSIVE parseExpression(_, _)
RECURSIVE parsePrimaryExpression(_, _)
RECURSIVE parseUnaryExpression(_, _)
RECURSIVE postfixLoop(_, _, _)
RECURSIVE parenArguments(_, _, _)
RECURSIVE bareArguments(_, _, _)
RECURSIVE arrayElements(_, _, _)
RECURSIVE objectProperties(_, _, _)
RECURSIVE binaryLoop(_, _, _, _)

\* `[` elements `]` and `{` "key": value `}` (parser.ts 832-866), after the
\* opening token
arrayElements(tokens, pos, elements) ==
    IF match(tokens, pos, {"RBRACKET"}) THEN Parsed(ArrayLiteral(elements), pos + 1)
    ELSE AndThen(parseExpression(tokens, pos), LAMBDA e :
         arrayElements(tokens, IF match(tokens, e.pos, {"COMMA"}) THEN e.pos + 1 ELSE e.pos,
                       Append(elements, e.node)))
objectProperties(tokens, pos, properties) ==
    IF match(tokens, pos, {"RBRACE"}) THEN Parsed(ObjectLiteral(properties), pos + 1)
    ELSE AndThen(expect(tokens, pos, "STRING"), LAMBDA key :
         AndThen(expect(tokens, key.pos, "COLON"), LAMBDA colon :
         AndThen(parseExpression(tokens, colon.pos), LAMBDA e :
         objectProperties(tokens,
                          IF match(tokens, e.pos, {"COMMA"}) THEN e.pos + 1 ELSE e.pos,
                          Append(properties, [key |-> key.node.value, value |-> e.node])))))

\* Parser.parsePrimaryExpression (parser.ts 780-886)
parsePrimaryExpression(tokens, pos) ==
    LET token == peek(tokens, pos, 0) IN
    CASE token.type = "STRING" -> Parsed(Literal(Str(token.value)), pos + 1)
      [] token.type = "NUMBER" -> Parsed(Literal(parseFloat(token.value)), pos + 1)
      [] token.type = "YES" -> Parsed(Literal(Bool(TRUE)), pos + 1)
      [] token.type = "NO" -> Parsed(Literal(Bool(FALSE)), pos + 1)
      [] token.type = "LBRACKET" -> arrayElements(tokens, pos + 1, <<>>)
      [] token.type = "LBRACE" -> objectProperties(tokens, pos + 1, <<>>)
      [] token.type = "LPAREN" ->
           AndThen(parseExpression(tokens, pos + 1), LAMBDA e :
           AndThen(expect(tokens, e.pos, "RPAREN"), LAMBDA close : Parsed(e.node, close.pos)))
      [] token.type = "IDENTIFIER" -> Parsed(Identifier(token.value), pos + 1)
      [] OTHER -> ParseFailure("Unexpected token: " \o token.value \o " at line "
                               \o ToString(token.line))

\* the arguments of a call in parentheses (parser.ts 697-705), after `(`
parenArguments(tokens, pos, args) ==
    IF match(tokens, pos, {"RPAREN"}) THEN Parsed(args, pos + 1)
    ELSE AndThen(parseExpression(tokens, pos), LAMBDA e :
         parenArguments(tokens, IF match(tokens, e.pos, {"COMMA"}) THEN e.pos + 1 ELSE e.pos,
                        Append(args, e.node)))

\* the token after the argument just parsed, when it is an identifier, ends
\* the arguments if the token after it is one of these (parser.ts 745-761)
EndsAfterArgument ==
    {"ASSIGN", "ARROW", "COLON", "STRING", "NUMBER", "LBRACE", "LBRACKET"}
\* the arguments of a call without parentheses (parser.ts 706-770): the
\* while loop from its condition on.  The tests for statement keywords and
\* structural tokens at its head (714-724) never hold where the condition
\* of the loop does.
bareArguments(tokens, pos, args) ==
    IF ~match(tokens, pos, ArgumentStart) THEN Parsed(args, pos)
    ELSE IF /\ match(tokens, pos, {"IDENTIFIER"})
            /\ peek(tokens, pos, 1).type \in {"DIVIDE", "DOT"}
    THEN Parsed(args, pos)
    ELSE AndThen(parsePrimaryExpression(tokens, pos), LAMBDA a :
         IF match(tokens, a.pos, {"COMMA"})
         THEN bareArguments(tokens, a.pos + 1, Append(args, a.node))
         ELSE IF /\ match(tokens, a.pos, {"IDENTIFIER"})
                 /\ peek(tokens, a.pos, 1).type \in EndsAfterArgument
         THEN Parsed(Append(args, a.node), a.pos)
         ELSE IF ~match(tokens, a.pos, ArgumentStart)
         THEN Parsed(Append(args, a.node), a.pos)
         ELSE bareArguments(tokens, a.pos, Append(args, a.node)))

\* whether the postfix loop reads the token at pos as a member access
\* (parser.ts 669-670)
IsMemberAccess(tokens, pos) ==
    \/ match(tokens, pos, {"DOT"})
    \/ match(tokens, pos, {"DIVIDE"}) /\ peek(tokens, pos, 1).type = "IDENTIFIER"
\* Parser.parsePostfixExpression (parser.ts 665-778): the loop after the
\* primary expression
postfixLoop(tokens, expr, pos) ==
    IF IsMemberAccess(tokens, pos)
    THEN AndThen(expect(tokens, pos + 1, "IDENTIFIER"), LAMBDA p :
         postfixLoop(tokens, MemberExpression(expr, p.node.value), p.pos))
    ELSE IF match(tokens, pos, {"LBRACKET"})
    THEN AndThen(parseExpression(tokens, pos + 1), LAMBDA p :
         AndThen(expect(tokens, p.pos, "RBRACKET"), LAMBDA close :
         postfixLoop(tokens, ComputedMember(expr, p.node), close.pos)))
    ELSE IF \/ match(tokens, pos, {"LPAREN"})
            \/ /\ match(tokens, pos, ArgumentStart)
               /\ expr.type \in {"Identifier", "MemberExpression"}
    THEN AndThen(IF match(tokens, pos, {"LPAREN"})
                 THEN parenArguments(tokens, pos + 1, <<>>)
                 ELSE bareArguments(tokens, pos, <<>>), LAMBDA a :
         postfixLoop(tokens, CallExpression(expr, a.node), a.pos))
    ELSE Parsed(expr, pos)
parsePostfixExpression(tokens, pos) ==
    AndThen(parsePrimaryExpression(tokens, pos), LAMBDA p :
            postfixLoop(tokens, p.node, p.pos))

\* Parser.parseUnaryExpression (parser.ts 655-663)
parseUnaryExpression(tokens, pos) ==
    IF match(tokens, pos, {"MINUS"})
    THEN AndThen(parseUnaryExpression(tokens, pos + 1), LAMBDA o :
                 Parsed(UnaryExpression(tokens[pos].value, o.node), o.pos))
    ELSE parsePostfixExpression(tokens, pos)

\* The three levels of binary operators (parser.ts 611-653) are one loop
\* each: `left = <operand>; while (this.match(operators)) { operator =
\* advance().value; right = <operand>; left = BinaryExpression }`, the
\* operand being the level below.
LevelOperators(level) ==
    CASE level = "multiplicative" -> {"MULTIPLY", "DIVIDE"}
      [] level = "additive" -> {"PLUS", "MINUS"}
      [] level = "comparison" -> ComparisonOperators
RECURSIVE parseOperand(_, _, _)
binaryLoop(tokens, level, left, pos) ==
    IF match(tokens, pos, LevelOperators(level))
    THEN AndThen(parseOperand(tokens, level, pos + 1), LAMBDA right :
         binaryLoop(tokens, level,
                    BinaryExpression(tokens[pos].value, left, right.node), right.pos))
    ELSE Parsed(left, pos)
\* Parser.parseMultiplicativeExpression (parser.ts 643-653)
parseMultiplicativeExpression(tokens, pos) ==
    AndThen(parseUnaryExpression(tokens, pos), LAMBDA l :
            binaryLoop(tokens, "multiplicative", l.node, l.pos))
\* Parser.parseAdditiveExpression (parser.ts 631-641)
parseAdditiveExpression(tokens, pos) ==
    AndThen(parseMultiplicativeExpression(tokens, pos), LAMBDA l :
            binaryLoop(tokens, "additive", l.node, l.pos))
parseOperand(tokens, level, pos) ==
    CASE level = "multiplicative" -> parseUnaryExpression(tokens, pos)
      [] level = "additive" -> parseMultiplicativeExpression(tokens, pos)
      [] level = "comparison" -> parseAdditiveExpression(tokens, pos)
\* Parser.parseComparisonExpression (parser.ts 611-629); parseLogicalExpression
\* (600-609) gives what it gives
parseComparisonExpression(tokens, pos) ==
    AndThen(parseAdditiveExpression(tokens, pos), LAMBDA l :
            binaryLoop(tokens, "comparison", l.node, l.pos))
\* Parser.parseTernaryExpression (parser.ts 580-598), after `assume`
parseTernaryExpression(tokens, pos) ==
    AndThen(parseComparisonExpression(tokens, pos), LAMBDA c :
    AndThen(expect(tokens, c.pos, "ARROW"), LAMBDA arrow :
    AndThen(parseComparisonExpression(tokens, arrow.pos), LAMBDA t :
        IF ~match(tokens, t.pos, {"COMMA"})
        THEN Parsed(TernaryExpression(c.node, t.node, NoNode), t.pos)
        ELSE IF ~match(tokens, t.pos + 1, {"OTHERWISE"})
        THEN Parsed(TernaryExpression(c.node, t.node, NoNode), t.pos + 1)
        ELSE AndThen(expect(tokens, t.pos + 2, "ARROW"), LAMBDA arrow2 :
             AndThen(parseExpression(tokens, arrow2.pos), LAMBDA e :
                     Parsed(TernaryExpression(c.node, t.node, e.node), e.pos))))))
\* Parser.parseExpression, parseAssignmentExpression (parser.ts 567-578)
parseExpression(tokens, pos) ==
    IF match(tokens, pos, {"ASSUME"}) THEN parseTernaryExpression(tokens, pos + 1)
    ELSE parseComparisonExpression(tokens, pos)

\* Parser.parseVariableDeclaration (parser.ts 313-345), after free or lock;
\* a node of the model does not keep the type annotation
parseVariableDeclaration(tokens, pos, mutable) ==
    LET typed == /\ match(tokens, pos, {"NUM", "LITERAL", "IDENTIFIER"})
                 /\ peek(tokens, pos, 1).type = "IDENTIFIER"
    IN AndThen(IF typed THEN Parsed(tokens[pos + 1], pos + 2)
               ELSE expect(tokens, pos, "IDENTIFIER"), LAMBDA name :
       IF match(tokens, name.pos, {"ASSIGN"})
          \/ (~match(tokens, name.pos, {"RBRACE", "EOF"})
              /\ peek(tokens, name.pos, 0).value = "=")
       THEN AndThen(parseExpression(tokens, name.pos + 1), LAMBDA e :
                    Parsed(VariableDeclaration(name.node.value, mutable, e.node), e.pos))
       ELSE Parsed(VariableDeclaration(name.node.value, mutable, NoNode), name.pos))
\* Parser.parsePrintStatement (parser.ts 426-438), after print
RECURSIVE printExpressions(_, _, _)
printExpressions(tokens, pos, expressions) ==
    AndThen(parseExpression(tokens, pos), LAMBDA e :
        IF match(tokens, e.pos, {"AND"})
        THEN printExpressions(tokens, e.pos + 1, Append(expressions, e.node))
        ELSE Parsed(PrintStatement(Append(expressions, e.node)), e.pos))
\* Parser.parseStatement (parser.ts 347-396): print, a declaration, or an
\* expression that is an assignment when `:=` or `=` comes after it
parseStatement(tokens, pos) ==
    IF match(tokens, pos, {"PRINT"}) THEN printExpressions(tokens, pos + 1, <<>>)
    ELSE IF match(tokens, pos, {"FREE", "LOCK"})
    THEN parseVariableDeclaration(tokens, pos + 1, match(tokens, pos, {"FREE"}))
    ELSE AndThen(parseExpression(tokens, pos), LAMBDA expr :
         IF match(tokens, expr.pos, {"ASSIGN"})
         THEN AndThen(parseExpression(tokens, expr.pos + 1), LAMBDA value :
                      Parsed(Assignment(expr.node, value.node), value.pos))
         ELSE Parsed(ExpressionStatement(expr.node), expr.pos))
\* Parser.parse (parser.ts 39-62): the statements up to the end of the file
RECURSIVE parseBody(_, _, _)
parseBody(tokens, pos, body) ==
    IF match(tokens, pos, {"EOF"}) THEN Parsed(body, pos)
    ELSE AndThen(parseStatement(tokens, pos), LAMBDA r :
                 parseBody(tokens, r.pos, Append(body, r.node)))
parse(tokens) == parseBody(tokens, 1, <<>>)

(***************************************************************************)
(* Whole programs: runFlick (part_000 10-41) parses the main file and      *)
(* interprets it statement by statement.  The main file is one of          *)
(* Programs.                                                               *)
(***************************************************************************)
MainFile == Path(TRUE, <<"app", "main.fk">>)
Member(obj, prop) == MemberExpression(Identifier(obj), prop)
\* group P { lock id = 1  free hp  task setId(v) ... }  free p = P(2)
GroupP ==
    GroupDeclaration("P",
        << VariableDeclaration("id", FALSE, Literal(Num(1))),
           VariableDeclaration("hp", TRUE, NoNode) >>,
        << TaskDeclaration("setId", <<"v">>, <<Assignment(Identifier("id"), Identifier("v"))>>),
           TaskDeclaration("setHp", <<"v">>, <<Assignment(Identifier("hp"), Identifier("v"))>>),
           TaskDeclaration("getId", <<>>, <<ReturnStatement(Identifier("id"))>>),
           TaskDeclaration("getHp", <<>>, <<ReturnStatement(Identifier("hp"))>>) >>)
NewP == VariableDeclaration("p", TRUE, Call("P", <<Literal(Num(2))>>))
\* writes of the fields: by member assignment and from inside a method
GroupWrites ==
    { Assignment(Member("p", "id"), Literal(Num(5))),
      Assignment(Member("p", "hp"), Literal(Num(6))),
      ExpressionStatement(CallExpression(Member("p", "setId"), <<Literal(Num(7))>>)),
      ExpressionStatement(CallExpression(Member("p", "setHp"), <<Literal(Num(8))>>)) }
\* print p.id, "=", p.getId(), ",", p.hp, "=", p.getHp()
ReadBack ==
    PrintStatement(<< Member("p", "id"), Literal(Str("=")),
                      CallExpression(Member("p", "getId"), <<>>), Literal(Str(",")),
                      Member("p", "hp"), Literal(Str("=")),
                      CallExpression(Member("p", "getHp"), <<>>) >>)
GroupPrograms ==
    { <<GroupP, NewP, ReadBack, w1, ReadBack, w2, ReadBack>> : w1, w2 \in GroupWrites }

\* programs that declare plugins, use modules and define routes
RouteA == RouteStatement("GET", "/a", <<Respond(Literal(Str("A")))>>)
WebModule == DeclareStatement("web", Literal(Str("module")))
WebPort == DeclareStatement("web", Literal(Num(3000)))
PluginPrograms ==
    { <<WebModule, RouteA>>,
      <<WebModule, WebPort, RouteA>>,
      <<WebPort, WebModule, RouteA>>,
      <<WebPort, RouteA>>,
      <<DeclareStatement("time", NoNode), DeclareStatement("web", NoNode),
        DeclareStatement("time", NoNode), DeclareStatement("files", NoNode),
        UseStatement("Mod", NoPath), RouteA>>,
      <<DeclareStatement("random", NoNode), DeclareStatement("random", NoNode),
        PrintStatement(<<Literal(Str("hello"))>>)>>,
      <<WebPort, RouteA, PrintStatement(<<Identifier("nosuch")>>),
        PrintStatement(<<Literal(Str("after the error"))>>)>>,
      <<RouteA>>,
      <<PrintStatement(<<Literal(Str("before"))>>),
        IfStatement(<<IfBranch(Literal(Bool(FALSE)), <<Respond(Literal(Str("R")))>>)>>)>>,
      <<DeclareStatement("time", NoNode), RouteA>>,
      <<WebPort, UseStatement("NoWeb", NoPath), RouteA>>,
      <<WebPort, UseStatement("Resp", NoPath), RouteA>>,
      <<UseStatement("Site", NoPath), PrintStatement(<<Literal(Str("main"))>>)>>,
      <<WebPort, UseStatement("Site", NoPath), PrintStatement(<<Literal(Str("main"))>>)>>,
      <<WebPort, UseStatement("Site", NoPath), RouteA>>,
      <<DeclareStatement("nosuch", NoNode), PrintStatement(<<Literal(Str("main"))>>)>> }

\* programs that define and call tasks
\* a task called from inside another task reads the variable of the scope it
\* was defined in
TaskScoping ==
    << VariableDeclaration("v", TRUE, Literal(Str("global"))),
       TaskDeclaration("show", <<>>, <<PrintStatement(<<Identifier("v")>>)>>),
       TaskDeclaration("caller", <<>>,
           << VariableDeclaration("v", TRUE, Literal(Str("local"))),
              ExpressionStatement(Call("show", <<>>)),
              PrintStatement(<<Identifier("v")>>) >>),
       ExpressionStatement(Call("caller", <<>>)) >>
\* fewer and more arguments than parameters, and a body without give
TaskParameters ==
    << TaskDeclaration("f", <<"a", "b">>,
           <<PrintStatement(<<Identifier("a"), Literal(Str(",")), Identifier("b")>>)>>),
       ExpressionStatement(Call("f", <<Literal(Num(1))>>)),
       ExpressionStatement(Call("f", <<Literal(Num(1)), Literal(Num(2)), Literal(Num(3))>>)),
       ExpressionStatement(Call("f", <<>>)),
       PrintStatement(<<Literal(Str("result ")), Call("f", <<Literal(Num(4)), Literal(Num(5))>>)>>) >>
\* a task that calls itself: each invocation has its own n and l, and the
\* caller has neither
TaskRecursion ==
    << TaskDeclaration("r", <<"n">>,
           << VariableDeclaration("l", TRUE, Identifier("n")),
              IfStatement(<< IfBranch(BinaryExpression("<", Identifier("n"), Literal(Num(2))),
                     <<ExpressionStatement(
                         Call("r", <<BinaryExpression("+", Identifier("n"),
                                                     Literal(Num(1)))>>))>>) >>),
              PrintStatement(<<Identifier("n"), Literal(Str(",")), Identifier("l")>>) >>),
       ExpressionStatement(Call("r", <<Literal(Num(1))>>)),
       PrintStatement(<<Identifier("l")>>) >>
\* a parameter with the name of a global variable
TaskShadow ==
    << VariableDeclaration("a", TRUE, Literal(Num(0))),
       TaskDeclaration("g", <<"a">>,
           << Assignment(Identifier("a"), Literal(Num(5))),
              PrintStatement(<<Identifier("a")>>) >>),
       ExpressionStatement(Call("g", <<Literal(Num(1))>>)),
       PrintStatement(<<Identifier("a")>>) >>
TaskPrograms == {TaskScoping, TaskParameters, TaskRecursion, TaskShadow}

\* programs that add two operands, in a declaration and in the initializer
\* of a group field: lock l = ...  lock r = ...  lock a = l + r
\* group G { lock s = l + r }  lock g = G()  print a, "|", g.s
Operands ==
    { Literal(Num(1)), Literal(Num(2)), Literal(Str("3")), Literal(Str("4")),
      Literal(Str("a")), Literal(Str("")), Literal(Bool(TRUE)), Literal(Null),
      BinaryExpression("*", Literal(Str("a")), Literal(Num(1))) }
PlusProgram(l, r) ==
    << VariableDeclaration("l", FALSE, l),
       VariableDeclaration("r", FALSE, r),
       VariableDeclaration("a", FALSE, BinaryExpression("+", Identifier("l"), Identifier("r"))),
       GroupDeclaration("G",
           <<VariableDeclaration("s", FALSE,
                 BinaryExpression("+", Identifier("l"), Identifier("r")))>>, <<>>),
       VariableDeclaration("g", FALSE, Call("G", <<>>)),
       PrintStatement(<<Identifier("a"), Literal(Str("|")), Member("g", "s")>>) >>
PlusPrograms == {PlusProgram(l, r) : l, r \in Operands}

\* programs that take a value as the condition of an if-statement with an
\* otherwise branch, of a ternary expression and of a suppose
Conditions ==
    { Literal(Null),
      MemberExpression(ArrayLiteral(<<Literal(Num(1))>>), "nosuch"),
      Literal(Bool(FALSE)), Literal(Bool(TRUE)),
      Literal(Str("")), Literal(Str("a")), Literal(Str("0")),
      Literal(Num(0)), Literal(Num(1)),
      BinaryExpression("*", Literal(Str("a")), Literal(Num(1))),
      ArrayLiteral(<<>>), ArrayLiteral(<<Literal(Num(0))>>),
      ObjectLiteral(<<>>), ObjectLiteral(<<[key |-> "k", value |-> Literal(Num(0))]>>),
      Identifier("num") }
ConditionProgram(c) ==
    << VariableDeclaration("c", FALSE, c),
       IfStatement(<< IfBranch(Identifier("c"),
                               <<PrintStatement(<<Literal(Str("assume")) >>)>>),
                      IfBranch(NoNode, <<PrintStatement(<<Literal(Str("otherwise"))>>)>>) >>),
       IfStatement(<< IfBranch(Literal(Bool(FALSE)), <<>>),
                      IfBranch(Identifier("c"),
                               <<PrintStatement(<<Literal(Str("maybe")) >>)>>),
                      IfBranch(NoNode, <<PrintStatement(<<Literal(Str("otherwise"))>>)>>) >>),
       PrintStatement(<<TernaryExpression(Identifier("c"), Literal(Str("consequent")),
                                          Literal(Str("alternate")))>>),
       PrintStatement(<<TernaryExpression(Identifier("c"), Literal(Str("consequent")),
                                          NoNode)>>),
       SelectStatement(Identifier("JSON"),
           << SelectCase("parse", <<Identifier("c")>>,
                         <<PrintStatement(<<Literal(Str("suppose"))>>)>>) >>),
       PrintStatement(<<Literal(Str("end"))>>) >>
ConditionPrograms == {ConditionProgram(c) : c \in Conditions}

\* programs that apply one of the other binary operators to two operands:
\* lock l = ...  lock r = ...  lock a = l op r  print a
OtherOperators == {"-", "*", "/", "==", "!=", "<", ">", "<=", ">="}
Comparands ==
    { Literal(Num(1)), Literal(Num(2)), Literal(Num(0)), Literal(Str("1")),
      Literal(Str("2")), Literal(Str("a")), Literal(Str("")),
      Literal(Bool(TRUE)), Literal(Null) }
OperatorProgram(op, l, r) ==
    << VariableDeclaration("l", FALSE, l),
       VariableDeclaration("r", FALSE, r),
       VariableDeclaration("a", FALSE, BinaryExpression(op, Identifier("l"), Identifier("r"))),
       PrintStatement(<<Identifier("a")>>) >>
OperatorPrograms ==
    {OperatorProgram(op, l, r) : op \in OtherOperators, l, r \in Comparands}

\* programs that declare v in a branch of an if-statement and read it after
\* the if-statement: assume c1 => lock v = 1  maybe c2 => lock v = 2
\* otherwise => lock v = 3  end  print v
BranchProgram(c1, c2) ==
    << IfStatement(<< IfBranch(Literal(Bool(c1)),
                               <<VariableDeclaration("v", FALSE, Literal(Num(1)))>>),
                      IfBranch(Literal(Bool(c2)),
                               <<VariableDeclaration("v", FALSE, Literal(Num(2)))>>),
                      IfBranch(NoNode,
                               <<VariableDeclaration("v", FALSE, Literal(Num(3)))>>) >>),
       PrintStatement(<<Identifier("v")>>) >>
BranchPrograms == {BranchProgram(c1, c2) : c1, c2 \in BOOLEAN}

\* programs that implement a blueprint for a group, each of the two declared
\* or not: group G { }  blueprint B { task hello }
\* do B for G => task hello => print "hello" end end  lock g = G()  g.hello()
GroupG == GroupDeclaration("G", <<>>, <<>>)
BlueprintB == BlueprintDeclaration("B", <<TaskSignature("hello", <<>>)>>)
DoBForG ==
    DoImplementation("B", "G",
        <<TaskDeclaration("hello", <<>>, <<PrintStatement(<<Literal(Str("hello"))>>)>>)>>)
BlueprintPrograms ==
    { declarations \o << DoBForG, VariableDeclaration("g", FALSE, Call("G", <<>>)),
                         ExpressionStatement(CallExpression(Member("g", "hello"), <<>>)) >> :
        declarations \in { <<GroupG, BlueprintB>>, <<BlueprintB, GroupG>>, <<GroupG>>,
                           <<BlueprintB>>, <<>> } }

\* programs whose `use` statements reach Shared.fk more than once
CachePrograms ==
    { <<UseStatement("Shared", NoPath), UseStatement("Shared", NoPath)>>,
      <<UseStatement("Shared", NoPath), UseStatement("User", NoPath)>>,
      <<UseStatement("User", NoPath), UseStatement("Shared", NoPath)>>,
      <<UseStatement("User", NoPath), UseStatement("Other", NoPath)>>,
      <<UseStatement("User", NoPath), UseStatement("User", NoPath)>> }

\* programs that bind a name which is already bound as immutable: by a lock
\* declaration, a task, a group, a `use`, a plugin builtin, a core builtin
LockX(k) == VariableDeclaration("x", FALSE, Literal(Num(k)))
FreeX(k) == VariableDeclaration("x", TRUE, Literal(Num(k)))
TaskF(k) == TaskDeclaration("f", <<>>, <<ReturnStatement(Literal(Num(k)))>>)
RebindPrograms ==
    { <<LockX(1), Assignment(Identifier("x"), Literal(Num(2))), PrintStatement(<<Identifier("x")>>)>>,
      <<LockX(1), LockX(2), PrintStatement(<<Identifier("x")>>)>>,
      <<LockX(1), FreeX(2), Assignment(Identifier("x"), Literal(Num(3))),
        PrintStatement(<<Identifier("x")>>)>>,
      <<TaskF(1), TaskF(2), PrintStatement(<<Call("f", <<>>)>>)>>,
      <<TaskF(1), VariableDeclaration("f", TRUE, Literal(Num(2))),
        PrintStatement(<<Identifier("f")>>)>>,
      <<GroupG, VariableDeclaration("G", TRUE, Literal(Num(0))),
        PrintStatement(<<Identifier("G")>>)>>,
      <<UseStatement("Shared", NoPath), VariableDeclaration("Shared", TRUE, Literal(Num(1))),
        PrintStatement(<<Identifier("Shared")>>)>>,
      <<DeclareStatement("time", NoNode), VariableDeclaration("now", TRUE, Literal(Num(1))),
        PrintStatement(<<Identifier("now")>>)>>,
      <<VariableDeclaration("str", TRUE, Literal(Num(5))),
        PrintStatement(<<Call("str", <<Literal(Num(1))>>)>>)>>,
      <<TaskDeclaration("str", <<"v">>, <<ReturnStatement(Literal(Str("mine")))>>),
        PrintStatement(<<Call("str", <<Literal(Num(1))>>)>>)>> }

\* programs that use a file which uses itself, or which uses a file that
\* uses it
CyclePrograms ==
    { <<UseStatement(name, NoPath), PrintStatement(<<Literal(Str("main continues"))>>)>> :
        name \in {"Self", "Ping", "Pong", "User", "Missing"} }

Programs ==
    GroupPrograms \cup PluginPrograms \cup TaskPrograms \cup PlusPrograms
    \cup ConditionPrograms \cup CachePrograms \cup OperatorPrograms
    \cup BranchPrograms \cup BlueprintPrograms \cup RebindPrograms \cup CyclePrograms

InitRun ==
    /\ program \in Programs
    /\ st = EmptyHeap
    /\ status = "parsing"
    /\ steps = 0
    /\ last = [stmt |-> NoNode, k |-> "normal", v |-> Null]
    /\ server = NoServer
    /\ reqs = <<>>

\* runFlick up to the call of interpret (part_000 10-34): the file is
\* parsed, and the interpreter made; a parse error ends the run before any
\* statement is interpreted
Parse ==
    /\ status = "parsing"
    /\ IF ParseError(program) = ""
       THEN /\ status' = "running"
            /\ st' = NewInterpreter(st, MainFile)
            /\ UNCHANGED last
       ELSE /\ status' = "aborted"
            /\ last' = [stmt |-> NoNode, k |-> "error", v |-> Str(ParseError(program))]
            /\ UNCHANGED st
    /\ UNCHANGED <<steps, program, server, reqs>>

NextRun == Parse \/ InterpretNext \/ Complete

SpecRun == InitRun /\ [][NextRun]_vars

(***************************************************************************)
(* Sources: the main file is given as the tokens of its text, which        *)
(* runFlick has the parser turn into the program (part_000 10-34).  While  *)
(* the file is being parsed, `program` holds the tokens.                   *)
(***************************************************************************)
Word(type, value) == [type |-> type, value |-> value]
Id(name) == Word("IDENTIFIER", name)
Numeral(digits) == Word("NUMBER", digits)
Becomes == Word("ASSIGN", ":=")
Is == Word("ASSIGN", "=")
Slash == Word("DIVIDE", "/")
Dot == Word("DOT", ".")
Comma == Word("COMMA", ",")
Free == Word("FREE", "free")
Show == Word("PRINT", "print")
\* the tokens of a text of one line whose words are one blank apart, and
\* the EOF token after them
RECURSIVE Column(_, _)
Column(words, i) ==
    IF i = 1 THEN 1
    ELSE Column(words, i - 1) + Len(words[i - 1].value) + 1
         + (IF words[i - 1].type = "STRING" THEN 2 ELSE 0)
Tokens(words) ==
    [i \in 1..(Len(words) + 1) |->
        IF i <= Len(words) THEN Token(words[i].type, words[i].value, Column(words, i))
        ELSE Token("EOF", "", Column(words, i))]

\* free x = 0  free y = 5  str <arguments> <next statement>  print x
\* the arguments of the call of str without parentheses
BareArguments ==
    { <<>>, <<Numeral("1")>>, <<Id("y")>>, <<Numeral("1"), Id("y")>>,
      <<Id("y"), Comma, Numeral("1")>> }
\* the statement after the call begins with the identifier x
NextStatements ==
    { <<Id("x"), Becomes, Numeral("1")>>, <<Id("x"), Is, Numeral("1")>>,
      <<Id("x"), Dot, Id("p"), Becomes, Numeral("1")>>,
      <<Id("x"), Slash, Id("p"), Becomes, Numeral("1")>> }
CallPrelude == <<Free, Id("x"), Is, Numeral("0"), Free, Id("y"), Is, Numeral("5")>>
CallSource(arguments, next) ==
    Tokens(CallPrelude \o <<Id("str")>> \o arguments \o next \o <<Show, Id("x")>>)
CallSources == {CallSource(arguments, next) : arguments \in BareArguments,
                                              next \in NextStatements}
\* free a = 6  free b = 2  print <left> <operator> <right>
DivisionOperands == {Id("a"), Id("b"), Numeral("6"), Numeral("2")}
DivisionSource(left, operator, right) ==
    Tokens(<<Free, Id("a"), Is, Numeral("6"), Free, Id("b"), Is, Numeral("2"),
             Show, left, operator, right>>)
DivisionSources ==
    {DivisionSource(left, operator, right) :
        left, right \in DivisionOperands, operator \in {Slash, Word("MULTIPLY", "*")}}
Sources == CallSources \cup DivisionSources

InitSource ==
    /\ program \in Sources
    /\ st = EmptyHeap
    /\ status = "parsing"
    /\ steps = 0
    /\ last = [stmt |-> NoNode, k |-> "normal", v |-> Null]
    /\ server = NoServer
    /\ reqs = <<>>
\* part_000 20-34: the parser's program is handed to a new interpreter, or
\* its error ends the run
ParseSource ==
    /\ status = "parsing"
    /\ IF parse(program).k = "ok"
       THEN /\ program' = parse(program).node
            /\ status' = "running"
            /\ st' = NewInterpreter(st, MainFile)
            /\ UNCHANGED last
       ELSE /\ status' = "aborted"
            /\ last' = [stmt |-> NoNode, k |-> "error", v |-> Str(parse(program).msg)]
            /\ UNCHANGED <<st, program>>
    /\ UNCHANGED <<steps, server, reqs>>
NextSource == ParseSource \/ InterpretNext \/ Complete
SpecSource == InitSource /\ [][NextSource]_vars

(***************************************************************************)
(* Properties of the main run.  They read the trace of the statement that  *)
(* the last step evaluated.                                                *)
(***************************************************************************)
RECURSIVE NearestTask(_, _)
\* the environment of the task invocation that code running in env belongs
\* to; 0 outside any task
NearestTask(s, env) ==
    IF env = 0 THEN 0
    ELSE IF s.envs[env].kind = "task" THEN env
    ELSE NearestTask(s, s.envs[env].parent)
Events(ev) == {i \in 1..Len(st.trace) : st.trace[i].ev = ev}
\* the first event after position i that is not the end of a statement
NextEvent(i) ==
    IF \E j \in (i + 1)..Len(st.trace) : st.trace[j].ev # "done"
    THEN CHOOSE j \in (i + 1)..Len(st.trace) :
             /\ st.trace[j].ev # "done"
             /\ \A d \in (i + 1)..(j - 1) : st.trace[d].ev = "done"
    ELSE 0
IsChild(env) == st.envs[env].kind \in {"task", "loop"}
\* the write of position a is the last one the trace has for its binding
LastWrite(a) ==
    /\ \A b \in Events("assign") :
           b > a /\ st.trace[b].k = "normal" =>
               ~(st.trace[b].before.at = st.trace[a].before.at
                 /\ st.trace[b].name = st.trace[a].name)
    /\ \A d \in Events("declare") :
           d > a => ~(st.trace[d].env = st.trace[a].before.at
                      /\ st.trace[d].name = st.trace[a].name)

\* C7 (as stated): of the modules one interpreter has loaded, no two are the
\* same file: a file that two `use` statements of a program resolve to is
\* parsed and evaluated once.
C7_Original ==
    \A m1, m2 \in 1..Len(st.modules) :
        (m1 # m2 /\ st.modules[m1].by = st.modules[m2].by)
            => st.modules[m1].file # st.modules[m2].file

\* the main interpreter has evaluated /app/Shared.fk twice, under two cache
\* keys
C7_LoadedTwice ==
    \E m1, m2 \in 1..Len(st.modules) :
        /\ m1 # m2
        /\ st.modules[m1].by = MainInterp /\ st.modules[m2].by = MainInterp
        /\ st.modules[m1].file = SharedFile /\ st.modules[m2].file = SharedFile
        /\ st.modules[m1].key # st.modules[m2].key

\* C8: a give executed inside a task ends that task invocation at once with
\* the give's value as its result (the statements that enclose the give end
\* by the return signal and nothing else runs in between), a task's result
\* is a value other than null only by its own give, and a statement ends by
\* the return signal only for a give of its own invocation, so the caller's
\* statements go on after the call.
C8_GiveEndsNearestTask ==
    /\ \A g \in Events("give") :
           NearestTask(st, st.trace[g].env) # 0 =>
               /\ NextEvent(g) # 0
               /\ st.trace[NextEvent(g)] =
                      [ev |-> "result", env |-> NearestTask(st, st.trace[g].env),
                       k |-> "normal", v |-> st.trace[g].v]
               /\ \A d \in (g + 1)..(NextEvent(g) - 1) :
                      /\ st.trace[d].k = "return"
                      /\ NearestTask(st, st.trace[st.trace[d].id].env)
                             = NearestTask(st, st.trace[g].env)
    /\ \A r \in Events("result") :
           (st.trace[r].k = "normal" /\ st.trace[r].v # Null) =>
               \E g \in Events("give") : g < r /\ NextEvent(g) = r
    /\ \A d \in Events("done") :
           st.trace[d].k = "return" =>
               \E g \in Events("give") :
                   /\ st.trace[d].id < g /\ g < d
                   /\ \A e \in (g + 1)..(d - 1) : st.trace[e].ev = "done"
                   /\ NearestTask(st, st.trace[g].env)
                          = NearestTask(st, st.trace[st.trace[d].id].env)
    /\ (last.k = "return") =>
           \E g \in Events("give") : NearestTask(st, st.trace[g].env) = 0

\* a give inside a select case inside a loop of a task that another task
\* called, and a statement of the calling task evaluated after that call
C8_Witness ==
    \E g \in Events("give") : \E c \in Events("stmt") :
        /\ st.envs[st.trace[g].env].kind = "loop"
        /\ NearestTask(st, st.trace[g].env) # 0
        /\ c > NextEvent(g)
        /\ st.trace[NextEvent(g)].ev = "result"
        /\ st.trace[c].type = "PrintStatement"
        /\ NearestTask(st, st.trace[c].env)
               \notin {0, NearestTask(st, st.trace[g].env)}
        /\ last.k = "normal"

C10_LockAndFree ==
    /\ \A d \in Events("declare") :
           st.trace[d].after = [bound |-> TRUE, value |-> st.trace[d].v,
                                mutable |-> st.trace[d].mutable, at |-> st.trace[d].env]
    /\ \A a \in Events("assign") :
           /\ (st.trace[a].before.bound /\ ~st.trace[a].before.mutable) =>
                  /\ st.trace[a].k = "error"
                  /\ st.trace[a].msg = "Cannot reassign immutable variable: "
                                           \o st.trace[a].name
                  /\ st.trace[a].after = st.trace[a].before
           /\ (st.trace[a].before.bound /\ st.trace[a].before.mutable) =>
                  /\ st.trace[a].k = "normal"
                  /\ st.trace[a].after = [bound |-> TRUE, value |-> st.trace[a].v,
                                          mutable |-> TRUE, at |-> st.trace[a].before.at]
                  /\ LastWrite(a) =>
                         lookupVariable(st, st.trace[a].name, st.trace[a].env)
                             = Normal(st, st.trace[a].v)

\* in one statement, an assignment to a free variable that succeeded and an
\* assignment to a lock variable that failed
C10_Witness ==
    /\ \E a \in Events("assign") :
           /\ st.trace[a].before.mutable /\ st.trace[a].k = "normal"
           /\ st.trace[a].after.value = Num(2) /\ st.trace[a].before.value = Num(1)
    /\ \E a \in Events("assign") :
           /\ st.trace[a].before.bound /\ ~st.trace[a].before.mutable
           /\ st.trace[a].k = "error"
           /\ st.trace[a].v = Num(3) /\ st.trace[a].after.value = Num(1)
    /\ status = "aborted"

(***************************************************************************)
(* Properties of whole programs.                                           *)
(***************************************************************************)
\* the writes of a field of a group instance in the trace: member
\* assignments, and assignments of a bare name that resolve to the field
MemberWrites ==
    {i \in Events("memberAssign") : st.trace[i].obj.t = "instance" /\ st.trace[i].before.bound}
MethodWrites ==
    {i \in Events("assign") :
        /\ st.trace[i].before.bound
        /\ st.envs[st.trace[i].before.at].kind = "instance"}
\* the field environment of the instance bound to the global `p`
FieldsOfP == st.envs[st.instances[st.envs[GlobalEnv].vars["p"].value.n].env].vars

\* C11: a write of a lock field of a group instance, by member assignment
\* or by a bare-name assignment inside a method, fails with "Cannot reassign
\* immutable variable: f" and leaves the field as it was; a write of a free
\* field by either path succeeds; the member read and the method's
\* bare-name read give the value of the one binding both paths write.
C11_LockAndFreeFields ==
    /\ \A i \in MemberWrites \cup MethodWrites :
           /\ st.trace[i].before.mutable = (st.trace[i].name = "hp")
           /\ ~st.trace[i].before.mutable =>
                  /\ st.trace[i].k = "error"
                  /\ st.trace[i].msg = "Cannot reassign immutable variable: "
                                           \o st.trace[i].name
                  /\ st.trace[i].after = st.trace[i].before
           /\ st.trace[i].before.mutable =>
                  /\ st.trace[i].k = "normal"
                  /\ st.trace[i].after = [bound |-> TRUE, value |-> st.trace[i].v,
                                          mutable |-> TRUE, at |-> st.trace[i].before.at]
    /\ \A i \in MemberWrites : st.trace[i].read = st.trace[i].after.value
    /\ (last.stmt = ReadBack /\ last.k = "normal") =>
           st.console[Len(st.console)] =
               stringify(FieldsOfP["id"].value) \o "=" \o stringify(FieldsOfP["id"].value)
               \o "," \o stringify(FieldsOfP["hp"].value) \o "="
               \o stringify(FieldsOfP["hp"].value)

\* a member assignment has set the free field to 6, both reads gave 6, and
\* then the assignment of the lock field inside a method has failed
C11_Witness ==
    /\ status = "aborted"
    /\ Len(st.console) = 2 /\ st.console[2] = "1=1,6=6"
    /\ \E i \in MethodWrites :
           /\ st.trace[i].name = "id" /\ st.trace[i].k = "error"
           /\ st.trace[i].v = Num(7) /\ st.trace[i].after.value = Num(1)

\* the invocations of tasks and methods in the trace
Invocations == {i \in Events("scope") : st.trace[i].kind = "task"}
\* the environments in which a task or method of that name was defined: the
\* environment of its declaration, the field environment of its instance
DefinedIn(name) ==
    {st.tasks[k].env : k \in {j \in 1..Len(st.tasks) : st.tasks[j].node.name = name}}
    \cup {st.instances[k].env :
             k \in {j \in 1..Len(st.instances) : name \in DOMAIN st.instances[j].methods}}

\* C15: every invocation of a task has an environment of its own, made for
\* it, whose parent is the environment the task was defined in and not the
\* caller's; the parameters are bound by position, a parameter without an
\* argument to null, arguments beyond the parameters to nothing; the
\* bindings of an invocation are seen neither by another invocation of the
\* task nor by the caller; a body that ends without give returns null.
C15_TaskInvocation ==
    /\ \A i \in Invocations :
           /\ st.envs[st.trace[i].env].kind = "task"
           /\ st.envs[st.trace[i].env].parent \in DefinedIn(st.trace[i].name)
           /\ \A j \in Invocations : j # i => st.trace[j].env # st.trace[i].env
           /\ \A d \in Events("declare") :
                  d < i => st.trace[d].env # st.trace[i].env
    /\ \A r \in Events("result") :
           (st.trace[r].k = "normal"
            /\ ~\E g \in Events("give") :
                   g < r /\ NearestTask(st, st.trace[g].env) = st.trace[r].env)
               => st.trace[r].v = Null
    /\ (program = TaskScoping /\ status = "complete") => st.console = <<"global", "local">>
    /\ (program = TaskParameters /\ status = "complete") =>
           st.console = <<"1,null", "1,2", "null,null", "4,5", "result null">>
    /\ (program = TaskRecursion /\ steps = 2) => st.console = <<"2,2", "1,1">>
    /\ (program = TaskRecursion /\ steps = 3) =>
           /\ status = "aborted" /\ last.v.s = "Undefined variable: l"
    /\ (program = TaskShadow /\ status = "complete") => st.console = <<"5", "0">>

\* the task show, called from inside the task caller, has run in an
\* environment under the global one, while the caller's environment is
\* another one
C15_Witness ==
    /\ program = TaskScoping /\ status = "complete"
    /\ \E i, j \in Invocations :
           /\ st.trace[i].name = "caller" /\ st.trace[j].name = "show" /\ i < j
           /\ st.envs[st.trace[j].env].parent = GlobalEnv
           /\ st.envs[st.trace[j].env].parent # st.trace[i].env
           /\ "v" \in DOMAIN st.envs[st.trace[i].env].vars

\* the `declare web` lines of the main program
WebDeclarations ==
    {i \in 1..Len(program) :
        program[i].type = "DeclareStatement" /\ program[i].plugin = "web"}
ModuleArgument(i) == program[i].argument = Literal(Str("module"))
LastWebIsModule ==
    \E i \in WebDeclarations : ModuleArgument(i) /\ \A j \in WebDeclarations : j <= i
\* the state of the web plugin: 0 Undeclared, 1 Declared, 2 Routes-Collected
\* (the program has ended), 3 Listening
WebPhase ==
    CASE server.listening -> 3
      [] status = "parsing" \/ WebDeclarations = {} -> 0
      [] status = "complete" -> 2
      [] OTHER -> 1
\* the server changes in one step only: the one that ends the program, after
\* its last top-level statement; the phase of the plugin never goes back
ListenerStartsAtEnd ==
    /\ WebPhase' >= WebPhase
    /\ server' # server =>
           /\ ~server.listening /\ server'.listening
           /\ status = "running" /\ status' = "complete"
           /\ steps = Len(program) /\ last.k = "normal"
\* the listener is there only when the main program has ended, has declared
\* web itself and has routes of its own
ListenerOfMainOnly ==
    server.listening =>
        /\ status = "complete" /\ steps = Len(program)
        /\ WebDeclarations # {}
        /\ \E i \in 1..Len(program) : program[i].type = "RouteStatement"

Global(name) == st.envs[GlobalEnv].vars[name].value
\* the value is a number, or a string that parses as one; NaN, which is
\* what a string that does not parse gives, is not a number
ParsesAsNumber(v) ==
    \/ v.t = "number" /\ ~isNaN(v)
    \/ v.t = "string" /\ ~isNaN(parseFloat(v.s))
NumberOf(v) == IF v.t = "string" THEN parseFloat(v.s) ELSE v

\* C16: l + r is the numeric sum when both operands are numbers or strings
\* that parse as numbers, and the concatenation of their string forms in
\* every other case (an operand that is NaN among them); the synchronous
\* evaluator of a group field's initializer gives the same value as the
\* asynchronous evaluator of a declaration.
C16_PlusOperator ==
    (program \in PlusPrograms /\ steps >= 5) =>
        /\ Global("a") = IF ParsesAsNumber(Global("l")) /\ ParsesAsNumber(Global("r"))
                         THEN Num(NumberOf(Global("l")).n + NumberOf(Global("r")).n)
                         ELSE Str(String(Global("l")) \o String(Global("r")))
        /\ GetProperty(Global("g"), "s", st).v = Global("a")
        /\ steps = 6 => st.console = <<stringify(Global("a")) \o "|" \o stringify(Global("a"))>>

\* "3" + "4" has given the number 7 in the declaration and in the field
\* initializer
C16_Witness ==
    /\ program = PlusProgram(Literal(Str("3")), Literal(Str("4")))
    /\ steps = 6
    /\ Global("a") = Num(7)
    /\ GetProperty(Global("g"), "s", st).v = Num(7)
    /\ st.console = <<"7|7">>

\* the values the claim names as false
NamedFalse(v) ==
    \/ v \in {Null, Undefined, Bool(FALSE), Str("")}
    \/ v.t = "array" /\ v.elems = <<>>
    \/ v.t = "object" /\ Keys(v) = {}

\* C17: a condition is false exactly when its value is null, undefined, no,
\* the empty string, an empty array or an object without keys, and true for
\* every other value, 0 among them; the branches of an if-statement, a
\* ternary expression and the suppose of a select case all go by this rule.
C17_Truthiness ==
    (program \in ConditionPrograms /\ status = "complete") =>
        st.console = IF NamedFalse(Global("c"))
                     THEN <<"otherwise", "otherwise", "alternate", "null", "end">>
                     ELSE <<"assume", "maybe", "consequent", "consequent", "suppose", "end">>

\* the condition 0 has taken the true branches, and the program has ended
C17_Witness ==
    /\ program = ConditionProgram(Literal(Num(0)))
    /\ status = "complete"
    /\ st.console = <<"assume", "maybe", "consequent", "consequent", "suppose", "end">>

\* C20 (as stated): in one run no file is parsed and evaluated twice,
\* whichever interpreters the `use` statements that name it belong to: the
\* main program's or a loaded module's.
C20_Original ==
    \A m1, m2 \in 1..Len(st.modules) :
        m1 # m2 => st.modules[m1].file # st.modules[m2].file

\* the main program, run by its absolute path, has used Shared and then
\* User, which uses Shared: Shared.fk was evaluated once by the main
\* interpreter and once more by the interpreter of User.fk
C20_LoadedByTwo ==
    /\ program = <<UseStatement("Shared", NoPath), UseStatement("User", NoPath)>>
    /\ status = "complete"
    /\ st.console = <<"shared loaded", "shared loaded", "user loaded">>
    /\ \E m1, m2 \in 1..Len(st.modules) :
           /\ st.modules[m1].file = SharedFile /\ st.modules[m2].file = SharedFile
           /\ st.modules[m1].key = st.modules[m2].key
           /\ st.modules[m1].by = MainInterp /\ st.modules[m2].by # MainInterp
           /\ st.modules[m1].env # st.modules[m2].env

\* the plugins of the main program's `declare` lines in the order of their
\* first declaration
DeclareLines == SelectSeq(program, LAMBDA n : n.type = "DeclareStatement")
FirstDeclared ==
    SelectSeq([j \in 1..Len(DeclareLines) |->
                  [plugin |-> DeclareLines[j].plugin,
                   first |-> \A k \in 1..(j - 1) :
                                DeclareLines[k].plugin # DeclareLines[j].plugin]],
              LAMBDA e : e.first)
\* the hooks run in the one step that ends the program; after an error
\* nothing more happens
HooksAtEnd ==
    /\ st'.hooks # st.hooks =>
           /\ st.hooks = <<>>
           /\ status = "running" /\ status' = "complete"
           /\ steps = Len(program) /\ last.k = "normal"
    /\ steps' # steps => status = "running" /\ last.k = "normal"
    /\ status = "aborted" => UNCHANGED vars

\* C13: when the main program has ended, every plugin it declares has been
\* visited exactly once by runFileCompleteHooks, in the order of first
\* declaration, also when it is declared more than once, and the visit has
\* invoked its onFileComplete if it has one (of the builtin plugins the web
\* plugin has); this happens only after the last top-level statement; when a
\* statement raises an error no later statement is evaluated and no hook is
\* invoked.
C13_HooksOncePerPlugin ==
    /\ [](/\ status = "complete" =>
                /\ Len(st.hooks) = Len(FirstDeclared)
                /\ \A j \in 1..Len(st.hooks) :
                       /\ st.hooks[j].plugin = FirstDeclared[j].plugin
                       /\ st.hooks[j].called = (st.hooks[j].plugin = "web")
          /\ status # "complete" => st.hooks = <<>> /\ ~server.listening
          /\ status = "aborted" => last.k # "normal")
    /\ [][HooksAtEnd]_vars

\* time, web, time and files were declared: the hooks ran for time, web and
\* files in that order, and the web plugin's started the server
C13_Witness ==
    /\ status = "complete"
    /\ Len(DeclareLines) = 4 /\ Len(st.hooks) = 3
    /\ st.hooks[2] = [plugin |-> "web", called |-> TRUE]
    /\ server.listening

\* the file a `use` of the main program names has a route or a respond and
\* no `declare web`
UngatedModules == {"NoWeb", "Resp"}
Requests == 1..Len(reqs)
Key(r) == r.method \o ":" \o r.url
\* the request's handler has thrown
Raised(r) == r.raised.k # "normal"
\* the forwarding routes of the table whose path is a prefix of the url
PrefixRoutes(url) ==
    {i \in 1..Len(server.routes) :
        /\ server.routes[i].route.isForwarding
        /\ startsWith(url, server.routes[i].route.fullPath)}
\* the step that request j waits for, taken in the current state, carries
\* the request on
CanGoOn(j) ==
    /\ reqs[j].phase = "body" =>
           Dispatch(reqs[j], [st EXCEPT !.trace = <<>>]).req.phase # "body"
    /\ reqs[j].phase = "sleeping" =>
           RunHandler(reqs[j], [st EXCEPT !.trace = <<>>]).req.pc > reqs[j].pc
\* the server is listening and every request in flight can take its next
\* step
NothingBlocked ==
    /\ server.listening
    /\ \A j \in Requests : CanGoOn(j)

\* C1 (as stated): a request whose handler produced a respond outcome has
\* executed no statement after the first such outcome, and its response is
\* that outcome's content, status and content type.
C1_Original ==
    \A i \in Requests :
        (reqs[i].phase = "done" /\ reqs[i].acc.firstAt # 0) =>
            /\ reqs[i].pc = reqs[i].acc.firstAt + 1
            /\ reqs[i].response = Response(reqs[i].acc.first.statusCode.n,
                                           reqs[i].acc.first.content.s,
                                           reqs[i].acc.first.contentType)

\* the handler of /two went on after its first respond and answered with
\* the second one
C1_LaterRespondWins ==
    \E i \in Requests :
        /\ reqs[i].method = "GET" /\ reqs[i].url = "/two"
        /\ reqs[i].phase = "done"
        /\ reqs[i].acc.firstAt = 1 /\ reqs[i].acc.first.content = Str("first")
        /\ reqs[i].pc = 4
        /\ reqs[i].response = Response(201, "second", "text/plain")

\* C2 (as stated): a request of another method than GET for whose
\* METHOD:path no route is registered, while GET:path is, is handled by the
\* route registered for GET:path.
C2_Original ==
    \A i \in Requests :
        ( /\ reqs[i].method # "GET"
          /\ ~MapGetEntry(server.routes, Key(reqs[i])).found
          /\ MapGetEntry(server.routes, "GET:" \o reqs[i].url).found ) =>
            reqs[i].route = MapGetEntry(server.routes, "GET:" \o reqs[i].url)

\* a POST to /inc, which has a GET route only, was answered 404
C2_PostNotRetried ==
    \E i \in Requests :
        /\ reqs[i].method = "POST" /\ reqs[i].url = "/inc"
        /\ MapGetEntry(server.routes, "GET:/inc").found
        /\ ~reqs[i].route.found
        /\ reqs[i].response = Response(404, "Not Found", "text/plain")

\* C3 (as stated): a request whose METHOD:path is the key of a registered
\* non-forwarding route is handled by that route's body (GET /a answers A
\* with status 200, POST /a answers B), and a request whose METHOD:path is no
\* key and of whose path no forwarding route's path is a prefix is answered
\* with status 404 without any handler statement being executed.
C3_Original ==
    \A i \in Requests :
        /\ ( /\ MapGetEntry(server.routes, Key(reqs[i])).found
             /\ ~MapGetEntry(server.routes, Key(reqs[i])).isForwarding ) =>
               /\ reqs[i].route = MapGetEntry(server.routes, Key(reqs[i]))
               /\ reqs[i].env # 0 => reqs[i].body = reqs[i].route.body
               /\ (reqs[i].phase = "done" /\ reqs[i].url = "/a") =>
                      reqs[i].response =
                          Response(200, IF reqs[i].method = "GET" THEN "A" ELSE "B",
                                   "text/plain")
        /\ ( /\ ~MapGetEntry(server.routes, Key(reqs[i])).found
             /\ PrefixRoutes(reqs[i].url) = {} ) =>
               /\ reqs[i].phase = "done"
               /\ reqs[i].response.status = 404
               /\ reqs[i].env = 0 /\ reqs[i].pc = 1

\* GET /v/x is no key and no forwarding route's path is a prefix of it, yet
\* a handler of Mod answered it
C3_AnsweredWithoutPrefix ==
    \E i \in Requests :
        /\ reqs[i].method = "GET" /\ reqs[i].url = "/v/x"
        /\ ~MapGetEntry(server.routes, Key(reqs[i])).found
        /\ PrefixRoutes(reqs[i].url) = {}
        /\ reqs[i].pc > 1
        /\ reqs[i].response = Response(200, "root", "text/plain")

\* C4 (as stated): a request whose METHOD:path is no key is given to the
\* first forwarding route of the table whose path is a prefix of the request
\* path, or to no route when there is none; the rest of the path after that
\* prefix ("/" when nothing is left) is matched by method and exact path
\* against the routes of the module the route forwards to, whose handler
\* runs in an environment on top of the module's; a miss is answered 404.
C4_Original ==
    \A i \in Requests :
        ~MapGetEntry(server.routes, Key(reqs[i])).found =>
            IF PrefixRoutes(reqs[i].url) = {}
            THEN ~reqs[i].route.found /\ reqs[i].response.status = 404
            ELSE /\ reqs[i].route =
                        server.routes[CHOOSE f \in PrefixRoutes(reqs[i].url) :
                            \A g \in PrefixRoutes(reqs[i].url) : f <= g].route
                 /\ ( /\ reqs[i].phase # "body"
                      /\ reqs[i].route.forward \in DOMAIN st.envs[GlobalEnv].vars ) =>
                        LET target == st.envs[GlobalEnv].vars[reqs[i].route.forward].value
                            rest == substring(reqs[i].url, Len(reqs[i].route.fullPath))
                            m == MatchForwarded(st.modules[target.n].routes, reqs[i].method,
                                                IF rest = "" THEN "/" ELSE rest)
                        IN IF m.found
                           THEN /\ reqs[i].body = m.route.body
                                /\ st.envs[reqs[i].env].parent = st.modules[target.n].env
                           ELSE reqs[i].response.status = 404

\* a request was given to a forwarding route whose path is no prefix of the
\* request path, and what was left after "stripping" it was "/"
C4_ForwardedWithoutPrefix ==
    \E i \in Requests :
        /\ reqs[i].url = "/v/x"
        /\ reqs[i].route.found /\ reqs[i].route.isForwarding
        /\ reqs[i].route.fullPath = "/v:1"
        /\ ~startsWith(reqs[i].url, reqs[i].route.fullPath)
        /\ reqs[i].phase = "done"
        /\ reqs[i].remainingPath = "/"

\* C5 (as stated): a request whose handler has raised an error is answered
\* with status 500 and the error's message as the body.
C5_Original ==
    \A i \in Requests :
        reqs[i].raised.k = "error" =>
            /\ reqs[i].response.status = 500
            /\ reqs[i].response.body = reqs[i].raised.v.s

\* C5: a request whose handler has thrown is answered, once, with status
\* 500, content type text/plain and the body "Error: " followed by the
\* error's message, or by "[object Object]" when what was thrown is the
\* return object of a give outside any task; the server keeps listening,
\* and every other request in flight can go on.
C5_HandlerError500 ==
    /\ \A i \in Requests :
           Raised(reqs[i]) =>
               /\ reqs[i].phase = "done"
               /\ reqs[i].writes = 1
               /\ reqs[i].response =
                      Response(500,
                               "Error: " \o (IF reqs[i].raised.k = "error"
                                             THEN reqs[i].raised.v.s
                                             ELSE "[object Object]"),
                               "text/plain")
    /\ (\E i \in Requests : Raised(reqs[i])) => NothingBlocked

\* the first request failed on a give outside any task and the request that
\* arrived after it was answered by its handler
C5_Witness ==
    /\ Len(reqs) = 2
    /\ reqs[1].raised.k = "return"
    /\ reqs[1].response.body = "Error: [object Object]"
    /\ reqs[2].phase = "done"
    /\ reqs[2].url = "/inc"
    /\ reqs[2].response.status = 200
    /\ server.listening

\* C6: the handler of a route of the main program runs in an environment
\* whose parent is the one global environment, not a copy of it; while a
\* request is suspended in sleep nothing keeps the other requests from
\* running; and a request that has answered /inc has written the value it
\* read plus one, whatever was written in between.
C6_SharedGlobalNoLock ==
    /\ \A i \in Requests :
           (reqs[i].env # 0 /\ ~reqs[i].route.isForwarding) =>
               /\ st.envs[reqs[i].env].kind = "route"
               /\ st.envs[reqs[i].env].parent = GlobalEnv
    /\ (\E i \in Requests : reqs[i].phase = "sleeping") => NothingBlocked
    /\ \A i \in Requests :
           (reqs[i].url = "/inc" /\ reqs[i].phase = "done" /\ reqs[i].env # 0) =>
               /\ "c" \in DOMAIN st.envs[reqs[i].env].vars
               /\ reqs[i].response =
                      Response(200, ToString(st.envs[reqs[i].env].vars["c"].value.n + 1),
                               "text/plain")

\* the lost update: two requests have both read 0 and both written 1
C6_Witness ==
    /\ Len(reqs) = 2
    /\ \A i \in {1, 2} :
           /\ reqs[i].url = "/inc" /\ reqs[i].phase = "done"
           /\ reqs[i].env # 0
           /\ st.envs[reqs[i].env].vars["c"].value = Num(0)
           /\ reqs[i].response.body = "1"
    /\ st.envs[GlobalEnv].vars["counter"].value = Num(1)

\* C18 (as stated): a respond in a `when` case of a select statement of a
\* route handler determines the response: GET /sel is answered with the
\* content S, the status 202 and the content type text/plain.
C18_Original ==
    \A i \in Requests :
        (reqs[i].method = "GET" /\ reqs[i].url = "/sel" /\ reqs[i].phase = "done") =>
            reqs[i].response = Response(202, "S", "text/plain")

\* the case of the select has run, respond included, the handler has gone on
\* after the select, and GET /sel was answered 200 OK
C18_RespondLost ==
    \E i \in Requests :
        /\ reqs[i].method = "GET" /\ reqs[i].url = "/sel" /\ reqs[i].phase = "done"
        /\ ~Raised(reqs[i])
        /\ st.console = <<"in case", "after select">>
        /\ reqs[i].response = Response(200, "OK", "text/plain")

\* what the handlers of /if have printed
AfterRespond == {"inner after", "middle after", "outer after"}
\* C19: a respond in a branch of an if-statement nested in branches of two
\* more if-statements (otherwise in maybe in assume) comes back to the
\* handler loop as it is: GET /if is answered with its content, status and
\* content type; the statements that follow in the branch of the respond and
\* in the branches around it are not run, the statements before it and the
\* handler's statements after the outermost if-statement are.
C19_RespondThroughIf ==
    /\ \A i \in Requests :
           (reqs[i].method = "GET" /\ reqs[i].url = "/if" /\ reqs[i].phase = "done") =>
               /\ reqs[i].response = Response(203, "I", "text/plain")
               /\ ~Raised(reqs[i])
               /\ \E k \in 1..(Len(st.console) - 1) :
                      st.console[k] = "outer before" /\ st.console[k + 1] = "after if"
    /\ \A k \in 1..Len(st.console) : st.console[k] \notin AfterRespond

\* GET /if was answered by the respond of the innermost branch
C19_Witness ==
    /\ Len(reqs) = 1
    /\ reqs[1].method = "GET" /\ reqs[1].url = "/if" /\ reqs[1].phase = "done"
    /\ reqs[1].response = Response(203, "I", "text/plain")
    /\ st.console = <<"outer before", "after if">>

\* the operator `op` applied to two operands after both were made numbers
OnNumbers(op, l, r) ==
    CASE op = "-" -> Minus(l, r)
      [] op = "*" -> Times(l, r)
      [] op = "/" -> Divide(l, r)
      [] op = "==" -> Bool(l = r /\ ~isNaN(l))
      [] op = "!=" -> Bool(~(l = r /\ ~isNaN(l)))
      [] op = "<" -> Bool(Less(l, r))
      [] op = ">" -> Bool(Less(r, l))
      [] op = "<=" -> Bool(Less(l, r) \/ (l = r /\ ~isNaN(l)))
      [] op = ">=" -> Bool(Less(r, l) \/ (l = r /\ ~isNaN(l)))

\* C21 (as stated): each of the operators - * / == != < > <= >= gives the
\* result of the operator on the numbers its two operands convert to, so
\* that "1" == 1 is true and "1" != 1 is false.
C21_Original ==
    (program \in OperatorPrograms /\ steps >= 3) =>
        Global("a") = OnNumbers(program[3].initializer.operator,
                                Number(Global("l")), Number(Global("r")))

\* "1" == 1 has been evaluated and is false: == compares the operands as
\* they are
C21_StrictEquality ==
    /\ program = OperatorProgram("==", Literal(Str("1")), Literal(Num(1)))
    /\ status = "complete"
    /\ Global("a") = Bool(FALSE)
    /\ st.console = <<"no">>

\* C22 (as stated): a variable declared inside a branch of an if-statement
\* is not bound in the enclosing scope once the if-statement has ended, and
\* a read of it there fails with an undefined-variable error.
C22_Original ==
    (program \in BranchPrograms /\ steps >= 1) =>
        /\ "v" \notin DOMAIN st.envs[GlobalEnv].vars
        /\ steps = 2 => /\ status = "aborted"
                        /\ last.k = "error"
                        /\ last.v = Str("Undefined variable: v")

\* the maybe branch has declared v, the if-statement has ended, and the
\* print after it has read v in the global environment
C22_BoundInEnclosing ==
    /\ program = BranchProgram(FALSE, TRUE)
    /\ status = "complete"
    /\ Len(st.envs) = 1
    /\ Global("v") = Num(2)
    /\ st.console = <<"2">>

\* the groups and the blueprints of the main interpreter
Groups == st.interps[MainInterp].groups
Blueprints == st.interps[MainInterp].blueprints
\* C23 (as stated): `do B for G` fails with an unknown-group error when G
\* was not declared and with an unknown-blueprint error when B was not
\* declared, and a failed `do` attaches no method to any group.
C23_Original ==
    (program \in BlueprintPrograms /\ status # "parsing") =>
        /\ last.stmt = DoBForG =>
               /\ "G" \notin DOMAIN Groups =>
                      last.k = "error" /\ last.v = Str("Unknown group: G")
               /\ ("G" \in DOMAIN Groups /\ "B" \notin DOMAIN Blueprints) =>
                      last.k = "error" /\ last.v = Str("Unknown blueprint: B")
        /\ \A g \in DOMAIN Groups :
               \A i \in 1..Len(Groups[g].implementations) :
                   Groups[g].implementations[i].blueprint \in DOMAIN Blueprints

\* G is declared and B is not: `do B for G` has ended without an error, G
\* has the implementation, and its method was called on an instance
C23_UnknownBlueprintImplemented ==
    /\ program = <<GroupG>> \o SubSeq(program, 2, Len(program))
    /\ Len(program) = 4
    /\ program \in BlueprintPrograms
    /\ status = "complete"
    /\ "B" \notin DOMAIN Blueprints
    /\ Len(Groups["G"].implementations) = 1
    /\ "hello" \in DOMAIN Groups["G"].implementations[1].methods
    /\ st.console = <<"hello">>

\* env is `a` or has it among its ancestors
RECURSIVE IsAncestor(_, _)
IsAncestor(a, env) == env # 0 /\ (env = a \/ IsAncestor(a, st.envs[env].parent))
\* the environment the handler of request r is layered on
ParentOf(r) ==
    IF r.route.isForwarding
    THEN st.modules[st.envs[GlobalEnv].vars[r.route.forward].value.n].env
    ELSE GlobalEnv
RequestNames == {"req", "body", "query", "headers"}
\* the request's environment is a route environment of its own on top of
\* the global or the module's environment; no other request's environment
\* has it as an ancestor; the request bindings and the variable c that the
\* handlers of /inc and /decl declare are bound in route environments only
RequestScoped ==
    /\ \A i \in 1..Len(reqs) :
           reqs[i].env # 0 =>
               /\ st.envs[reqs[i].env].kind = "route"
               /\ st.envs[reqs[i].env].parent = ParentOf(reqs[i])
               /\ RequestNames \subseteq DOMAIN st.envs[reqs[i].env].vars
               /\ \A j \in 1..Len(reqs) :
                      (j # i /\ reqs[j].env # 0) => ~IsAncestor(reqs[i].env, reqs[j].env)
    /\ \A env \in 1..Len(st.envs) :
           st.envs[env].kind # "route" =>
               DOMAIN st.envs[env].vars \cap (RequestNames \cup {"c"}) = {}
\* a step of the listening server leaves the names that every environment
\* other than a route environment binds as they are
ParentsKeepNames ==
    server.listening =>
        \A env \in 1..Len(st.envs) :
            st.envs[env].kind # "route" =>
                DOMAIN st'.envs[env].vars = DOMAIN st.envs[env].vars
\* C24: every request is evaluated in a fresh Environment whose parent is
\* the global environment (local route) or the forwarded module's
\* environment (forwarded route); req, body, query, headers and what the
\* handler declares at its top level are bound in that Environment only, no
\* in-flight request reads another's, and the parent binds the same names
\* after the request as before it.
C24_RequestEnvironment == []RequestScoped /\ [][ParentsKeepNames]_vars

\* GET /inc is suspended in sleep after declaring c and GET /api/decl has
\* been answered after declaring c: each c is in the request's own
\* environment, on top of the global and of the module's environment
C24_Witness ==
    /\ Len(reqs) = 2
    /\ reqs[1].url = "/inc" /\ reqs[1].phase = "sleeping"
    /\ reqs[2].url = "/api/decl" /\ reqs[2].response = Response(200, "m", "text/plain")
    /\ reqs[1].env # reqs[2].env
    /\ st.envs[reqs[1].env].vars["c"].value = Num(0)
    /\ st.envs[reqs[2].env].vars["c"].value = Str("m")
    /\ st.envs[reqs[1].env].parent = GlobalEnv
    /\ st.envs[reqs[2].env].parent # GlobalEnv

\* the node of one of the words that are operands
OperandNode(word) ==
    IF word.type = "IDENTIFIER" THEN Identifier(word.value)
    ELSE Literal(parseFloat(word.value))
RECURSIVE ArgumentNodes(_, _)
ArgumentNodes(arguments, i) ==
    IF i > Len(arguments) THEN <<>>
    ELSE IF arguments[i].type = "COMMA" THEN ArgumentNodes(arguments, i + 1)
    ELSE <<OperandNode(arguments[i])>> \o ArgumentNodes(arguments, i + 1)
\* the statement that begins with x: an assignment to x or to its member p
NextNode(next) ==
    Assignment(IF Len(next) = 3 THEN Identifier("x")
               ELSE MemberExpression(Identifier("x"), "p"), Literal(Num(1)))
CallProgram(arguments, next) ==
    << VariableDeclaration("x", TRUE, Literal(Num(0))),
       VariableDeclaration("y", TRUE, Literal(Num(5))),
       ExpressionStatement(CallExpression(Identifier("str"), ArgumentNodes(arguments, 1))),
       NextNode(next),
       PrintStatement(<<Identifier("x")>>) >>
\* C25 (as stated): the arguments of a call without parentheses end before
\* an identifier that `:=`, `=`, `/` or `.` follows, at every position, the
\* first among them: the text `str <arguments> x ...` parses as the call of
\* str with these arguments and then the statement that begins with x.
C25_Original ==
    [][ \A arguments \in BareArguments, next \in NextStatements :
          (status = "parsing" /\ program = CallSource(arguments, next))
              => program' = CallProgram(arguments, next) ]_vars

\* `str x := 1` was parsed as an assignment whose target is the call of str
\* with the argument x; the program has run, and x is still 0
C25_FirstArgumentTaken ==
    /\ program = << VariableDeclaration("x", TRUE, Literal(Num(0))),
                    VariableDeclaration("y", TRUE, Literal(Num(5))),
                    Assignment(CallExpression(Identifier("str"), <<Identifier("x")>>),
                               Literal(Num(1))),
                    PrintStatement(<<Identifier("x")>>) >>
    /\ status = "complete"
    /\ st.console = <<"0">>

\* print <left> <operator> <right> as the claim reads it
DivisionProgram(left, operator, right) ==
    << VariableDeclaration("a", TRUE, Literal(Num(6))),
       VariableDeclaration("b", TRUE, Literal(Num(2))),
       PrintStatement(<<BinaryExpression(operator.value, OperandNode(left),
                                         OperandNode(right))>>) >>
\* C30 (as stated): `a / b` whose right operand is an identifier parses as
\* the BinaryExpression of the division, as it does when the right operand
\* is a number, and so evaluates to Number(a) / Number(b).
C30_Original ==
    [][ \A left, right \in DivisionOperands :
          (status = "parsing" /\ program = DivisionSource(left, Slash, right))
              => program' = DivisionProgram(left, Slash, right) ]_vars

\* `print a / b` was parsed as the print of the member b of a; the program
\* has run and has printed the member that the number 6 does not have
C30_ParsedAsMember ==
    /\ program = << VariableDeclaration("a", TRUE, Literal(Num(6))),
                    VariableDeclaration("b", TRUE, Literal(Num(2))),
                    PrintStatement(<<MemberExpression(Identifier("a"), "b")>>) >>
    /\ status = "complete"
    /\ st.console = <<"null">>

(***************************************************************************)
(* C26: route lookup and the query string                                  *)
(***************************************************************************)
\* the route of the table that a request for the path alone is given
RouteOfPath(r) == LookupRoute(server.routes, r.method, pathname(r.url))
\* the route of the forwarded module that the remaining path selects when
\* the query string is left out
ForwardedOfPath(r) ==
    LET route  == RouteOfPath(r)
        target == st.envs[GlobalEnv].vars[route.forward].value
        rest   == RemainingPath([r EXCEPT !.url = pathname(r.url), !.route = route])
    IN  IF /\ route.isForwarding
           /\ route.forward \in DOMAIN st.envs[GlobalEnv].vars
           /\ target.t = "module"
        THEN MatchForwarded(st.modules[target.n].routes, r.method, rest)
        ELSE [found |-> FALSE, route |-> NoNode]
\* C26 (as stated): a request is dispatched by the path component of its URL
\* alone: its route is the one registered for the path without the query
\* string, and a forwarded request runs the handler of the module route
\* that its remaining path without the query string selects.
C26_Original ==
    \A i \in 1..Len(reqs) :
        /\ reqs[i].route = RouteOfPath(reqs[i])
        /\ (reqs[i].phase = "done" /\ ForwardedOfPath(reqs[i]).found)
               => reqs[i].body = ForwardedOfPath(reqs[i]).route.body
\* `GET /a?x=1` is answered 404 although GET "/a" is registered, and
\* `GET /api/x?x=1` is looked up in the forwarded module as "/x?x=1"
C26_QueryInKey ==
    /\ \E i \in 1..Len(reqs) :
           /\ reqs[i].method = "GET" /\ reqs[i].url = "/a?x=1"
           /\ RouteOfPath(reqs[i]).found /\ RouteOfPath(reqs[i]).fullPath = "/a"
           /\ reqs[i].response = Response(404, "Not Found", "text/plain")
    /\ \E i \in 1..Len(reqs) :
           /\ reqs[i].method = "GET" /\ reqs[i].url = "/api/x?x=1"
           /\ ForwardedOfPath(reqs[i]).found
           /\ reqs[i].response =
                  Response(404, "Not Found in forwarded routes (looking for GET /x?x=1)",
                           "text/plain")

(***************************************************************************)
(* C27: immutable bindings                                                 *)
(***************************************************************************)
\* the bindings of the heap that are immutable
Immutable(s) ==
    { <<e, n>> \in (1..Len(s.envs)) \X {"x", "f", "G", "Shared", "now", "str", "num", "JSON"} :
          n \in DOMAIN s.envs[e].vars /\ ~s.envs[e].vars[n].mutable }
\* a step leaves the value of every immutable binding as it is
ImmutableKept ==
    \A b \in Immutable(st) :
        /\ b[1] <= Len(st'.envs)
        /\ b[2] \in DOMAIN st'.envs[b[1]].vars
        /\ st'.envs[b[1]].vars[b[2]].value = st.envs[b[1]].vars[b[2]].value
\* C27 (as stated): once a name is bound as immutable in an environment, by
\* a lock declaration, a task, a group, a `use`, a plugin builtin or a core
\* builtin, the value read for it in that environment stays the same under
\* every statement executed afterwards.
C27_Original == [][ImmutableKept]_vars
\* after `lock x = 1`, `free x = 2` and `x = 3` the global x holds 3
C27_LockRebound ==
    /\ Len(program) = 4 /\ program[1] = LockX(1) /\ program[2] = FreeX(2)
    /\ steps = 3 /\ status = "running"
    /\ st.envs[GlobalEnv].vars["x"] = Binding(Num(3), TRUE)

(***************************************************************************)
(* C28: `use` and modules that use each other                              *)
(***************************************************************************)
\* C28 (as stated): evaluating a `use` statement terminates, with the module
\* bound or with a module-load error, also when a module uses itself or the
\* file that is loading it.  Every load of a file starts from a new
\* interpreter with an empty module cache and so runs as every other load of
\* that file does: a load terminates only if no file is entered while its
\* own load is in progress, and every run ends bound or with an error.
C28_Original ==
    /\ \A i, j \in 1..Len(st.loading) : i # j => st.loading[i] # st.loading[j]
    /\ status # "loading"
\* `use Ping`: Ping.fk, Pong.fk and Ping.fk again are being loaded, each by
\* an interpreter whose module cache is empty, and none of the loads has
\* returned
C28_LoadedInsideItself ==
    /\ program[1] = UseStatement("Ping", NoPath)
    /\ status = "loading" /\ steps = 1
    /\ Len(st.loading) = MaxLoads
    /\ \A i \in 1..Len(st.loading) :
           st.loading[i] = IF i % 2 = 1 THEN PingFile ELSE PongFile
    /\ Len(st.interps) = 1 + MaxLoads
    /\ \A i \in 1..Len(st.interps) : DOMAIN st.interps[i].loadedModules = {}
    /\ st.modules = <<>>

(***************************************************************************)
(* C29: every request is answered exactly once                             *)
(***************************************************************************)
\* the response has been written one time when the callback is through, and
\* not at all before
WrittenOnce ==
    \A i \in 1..Len(reqs) :
        /\ reqs[i].phase \in {"body", "sleeping", "done"}
        /\ reqs[i].phase = "done" =>
               reqs[i].writes = 1 /\ reqs[i].response.status \in 100..999
        /\ reqs[i].phase # "done" =>
               reqs[i].writes = 0 /\ reqs[i].response = NoResponse
\* a request that has been answered is not written to again
AnswerStays ==
    \A i \in 1..Len(reqs) : reqs[i].phase = "done" => reqs'[i] = reqs[i]
\* C29: every request the listener accepts is answered exactly once: the
\* response is written one time on every path of the callback (no route,
\* forward target not bound, no route in the forwarded module, handler
\* through with or without a respond, handler raised), never twice, and
\* every request is answered in the end.
C29_AnsweredExactlyOnce ==
    /\ []WrittenOnce
    /\ [][AnswerStays]_vars
    /\ \A i \in 1..MaxRequests :
           [](Len(reqs) >= i => <>(Len(reqs) >= i /\ reqs[i].phase = "done"))
\* a request whose handler raised after the timer of sleep had fired for
\* another one, whose handler ran to its end: each has one response
C29_Witness ==
    /\ Len(reqs) = 2
    /\ reqs[1].url = "/inc" /\ reqs[1].phase = "done" /\ reqs[1].writes = 1
    /\ reqs[1].response.status = 200
    /\ reqs[2].url = "/err" /\ reqs[2].phase = "done" /\ reqs[2].writes = 1
    /\ reqs[2].response.status = 500
====
